---- MODULE Spec2Model ----
(***************************************************************************)
(* Model of the feedback-driven generation and validation loop of          *)
(* projects_tools.llm_integration: CodeGenerator, CodeValidator,           *)
(* ProjectContext, FeedbackLoop and the ProjectGenie orchestrator.         *)
(*                                                                         *)
(* Text (model responses, file contents, messages) is a sequence of        *)
(* one-character strings over the character classes the code's regular     *)
(* expressions and validators distinguish:                                 *)
(*   "B"  a backtick            "N"  a newline        "S"  a space         *)
(*   "g"  a word character of code that compiles and lints clean           *)
(*   "l"  a word character of code that compiles but the linter reports    *)
(*        as an error                                                      *)
(*   "x"  a non-word character that makes Python source fail to compile    *)
(***************************************************************************)
EXTENDS Integers, Sequences, FiniteSets, TLC

VARIABLES
    files,              \* the disk: resolved file -> text
    dirs,               \* the disk: directories that exist
    context,            \* ProjectContext.context (in memory)
    context_doc,        \* .project_genie_context.json as last written
    feedback_entries,   \* FeedbackLoop.feedback_entries (in memory)
    feedback_doc,       \* .feedback/feedback.json as last written
    error_instances,    \* FeedbackLoop.error_collector.error_instances
    log,                \* calls made by the running operation, in order
    pc,                 \* position of the running orchestrator flow
    flow,               \* locals of the running flow
    ret,                \* what the last finished operation returned
    env,                \* the installation: linters present, project root form
    calls,              \* number of direct calls of an operation made so far
    other,              \* a second ProjectContext and FeedbackLoop on the same
                        \* root: what they hold in memory
    error_collector,    \* an ErrorCollector: error_patterns and error_instances,
                        \* each in the order of its dict
    error_data,         \* the file ErrorCollector.save_to_file last wrote
    subprocess          \* the process a blocked subprocess.run waits for

vars == <<calls, files, dirs, context, context_doc, feedback_entries, feedback_doc,
          error_instances, log, pc, flow, ret, env, other, error_collector, error_data, subprocess>>

-----------------------------------------------------------------------------
(* Text                                                                    *)

BT == "B"
NL == "N"
SP == "S"

IsSpace(c) == c \in {NL, SP}
IsWord(c) == c \in {"g", "l"}

Chars(t) == {t[i] : i \in 1..Len(t)}

\* str.strip(): drop leading and trailing whitespace
RECURSIVE LStrip(_)
LStrip(t) == IF t # <<>> /\ IsSpace(Head(t)) THEN LStrip(Tail(t)) ELSE t

RECURSIVE RStrip(_)
RStrip(t) ==
    IF t # <<>> /\ IsSpace(t[Len(t)]) THEN RStrip(SubSeq(t, 1, Len(t) - 1)) ELSE t

Strip(t) == RStrip(LStrip(t))

\* number of consecutive characters of t from index i on that satisfy a class
RECURSIVE WordRun(_, _)
WordRun(t, i) == IF i <= Len(t) /\ IsWord(t[i]) THEN 1 + WordRun(t, i + 1) ELSE 0

RECURSIVE SpaceRun(_, _)
SpaceRun(t, i) == IF i <= Len(t) /\ IsSpace(t[i]) THEN 1 + SpaceRun(t, i + 1) ELSE 0

\* the literal fence (three backticks) at index i
FenceAt(t, i) ==
    /\ i >= 1
    /\ i + 2 <= Len(t)
    /\ t[i] = BT /\ t[i + 1] = BT /\ t[i + 2] = BT

\* \s* and the closing fence matched at index r: the whitespace run from r is followed by a fence
ClosesAt(t, r) == FenceAt(t, r + SpaceRun(t, r))

\* ([\s\S]+?) from index p, lazy: the least length after which the fence closes
GroupLens(t, p) == {n \in 1..(Len(t) - p + 1) : ClosesAt(t, p + n)}

MinOf(S) == CHOOSE n \in S : \A m \in S : n <= m
MaxOf(S) == CHOOSE n \in S : \A m \in S : n >= m

\* fence (?:\w+)?\s*([\s\S]+?)\s* fence, attempted at index i. The optional language
\* tag and \s* are greedy: they give back characters only when the rest fails.
\* The candidates are <<k, s>>: k characters in the tag, s in the \s* after it.
BlockCands(t, i) ==
    IF ~FenceAt(t, i) THEN {}
    ELSE {c \in (0..WordRun(t, i + 3)) \X (0..Len(t)) :
             /\ c[2] <= SpaceRun(t, i + 3 + c[1])
             /\ GroupLens(t, i + 3 + c[1] + c[2]) # {}}

BlockGroup(t, i) ==
    LET C == BlockCands(t, i)
        k == MaxOf({c[1] : c \in C})
        s == MaxOf({c[2] : c \in {d \in C : d[1] = k}})
        p == i + 3 + k + s
    IN SubSeq(t, p, p + MinOf(GroupLens(t, p)) - 1)

BlockStarts(t) == {i \in 1..Len(t) : BlockCands(t, i) # {}}

\* CodeGenerator._extract_code_from_response
ExtractCode(response) ==
    IF BlockStarts(response) # {}
    THEN Strip(BlockGroup(response, MinOf(BlockStarts(response))))
    ELSE Strip(response)

-----------------------------------------------------------------------------
(* Paths and the disk                                                      *)
(*                                                                         *)
(* A path is [root, dir, stem, ext]: root counts how many times the        *)
(* project path is prefixed (0: relative to the project, as the            *)
(* decomposition names components), dir is the list of directory names,    *)
(* stem and ext the two parts of the file name.                            *)

Path(root, dir, stem, ext) == [root |-> root, dir |-> dir, stem |-> stem, ext |-> ext]

NoPath == Path(0, <<>>, "", "")

\* os.path.join(self.project_path, path): an absolute second argument is
\* returned as it is; so is "./x" joined to "." (the same file). Under a
\* relative project path a path that already carries it gets it twice.
Join(e, path) ==
    IF path.root >= 1 /\ ~e.relative_root THEN path
    ELSE [path EXCEPT !.root = @ + 1]

FileName(f) == IF f.ext = "" THEN f.stem ELSE f.stem \o "." \o f.ext

DirOf(f) == [root |-> f.root, segs |-> f.dir]
AsDir(f) == [root |-> f.root, segs |-> Append(f.dir, FileName(f))]

IsPrefix(a, b) == Len(a) <= Len(b) /\ SubSeq(b, 1, Len(a)) = a

ProjectDir == [root |-> 1, segs |-> <<>>]

\* os.path.join(project_path, ".feedback")
FeedbackDir == [root |-> 1, segs |-> <<".feedback">>]

DirExists(w, d) == d \in w.dirs

\* os.path.exists
Exists(w, f) == f \in DOMAIN w.files \/ DirExists(w, AsDir(f))

\* os.makedirs(d, exist_ok=True) raises when a file is in the way
CanMakeDirs(w, d) ==
    \A f \in DOMAIN w.files : ~(f.root = d.root /\ IsPrefix(AsDir(f).segs, d.segs))

MakeDirs(w, d) ==
    [w EXCEPT !.dirs = @ \cup {[root |-> d.root, segs |-> SubSeq(d.segs, 1, n)] :
                                  n \in 0..Len(d.segs)}]

\* open(f, "w") succeeds when the parent is a directory and f is not one
CanWrite(w, f) == DirExists(w, DirOf(f)) /\ ~DirExists(w, AsDir(f))

\* open(f, "r") and read
CanRead(w, f) == f \in DOMAIN w.files

Logged(w, event) == [w EXCEPT !.log = Append(@, event)]

WriteFile(w, f, text) ==
    Logged([w EXCEPT !.files = (f :> text) @@ @],
           [ev |-> "write", file |-> f, text |-> text])

\* open(f, 'r').read()
ReadFile(w, f) == Logged(w, [ev |-> "read", file |-> f, text |-> w.files[f]])

\* self.llm_client.generate(prompt): the request is made, the answer is an input
Asked(w, kind) == Logged(w, [ev |-> "llm", kind |-> kind])

-----------------------------------------------------------------------------
(* ProjectContext                                                          *)

\* ProjectContext._create_default_context
DefaultContext == [components |-> <<>>, requirements |-> <<>>, history |-> <<>>]

\* a save that keeps what the document holds and adds what it lacks
SaveMerging(w) ==
    IF DirExists(w, ProjectDir)
    THEN [w EXCEPT !.context_doc =
             [present |-> TRUE,
              data |-> [w.context EXCEPT !.components =
                           w.context_doc.data.components \o
                           SelectSeq(@, LAMBDA c :
                               \A n \in 1..Len(w.context_doc.data.components) :
                                   w.context_doc.data.components[n] # c)]]]
    ELSE w

\* ProjectContext.save: the whole document is rewritten; a failure to open
\* it is printed and the call returns
Save(w) ==
    IF DirExists(w, ProjectDir)
    THEN [w EXCEPT !.context_doc = [present |-> TRUE, data |-> w.context]]
    ELSE w

\* ProjectContext.add_component
AddComponent(w, ctype, name, path, description) ==
    Save([w EXCEPT !.context.components =
             Append(@, [type |-> ctype, name |-> name, path |-> path,
                        description |-> description])])

\* ProjectContext.add_requirement
AddRequirement(w, requirement, category) ==
    Save([w EXCEPT !.context.requirements =
             Append(@, [description |-> requirement, category |-> category,
                        status |-> "pending"])])

\* ProjectContext.add_history_entry
AddHistoryEntry(w, action, path) ==
    Save([w EXCEPT !.context.history = Append(@, [action |-> action, path |-> path])])

\* ProjectContext.update_requirement_status; index counts from 0
UpdateRequirementStatus(w, index, status) ==
    IF 0 <= index /\ index < Len(w.context.requirements)
    THEN Save([w EXCEPT !.context.requirements[index + 1].status = status])
    ELSE w

\* ProjectContext._load_context; readable says whether open and json.load
\* go through
LoadContext(w, readable) ==
    IF ~w.context_doc.present THEN DefaultContext
    ELSE IF readable THEN w.context_doc.data
    ELSE DefaultContext

\* ProjectContext.__init__
NewProjectContext(w, readable) == [w EXCEPT !.context = LoadContext(w, readable)]

-----------------------------------------------------------------------------
(* CodeValidator                                                           *)

ValidationResult(success, errors, warnings) ==
    [success |-> success, errors |-> errors, warnings |-> warnings]

\* compile(source, file_path, 'exec') raises SyntaxError
CompileFails(text) == "x" \in Chars(text) \/ BT \in Chars(text)

\* a parser that reports every error on the first line
FirstLine(text) == 1

\* SyntaxError.lineno: the line of the first character compile() rejects
SyntaxErrorLine(text) ==
    LET first == MinOf({k \in 1..Len(text) : text[k] \in {"x", BT}})
    IN 1 + Cardinality({k \in 1..(first - 1) : text[k] = NL})

\* f"Syntax error at line {e.lineno}: {e.msg}"
SyntaxErrorMessage(lineno, msg) ==
    "Syntax error at line " \o ToString(lineno) \o ": " \o msg

\* CodeValidator._check_python_syntax
CheckPythonSyntax(w, full) ==
    IF ~CanRead(w, full) THEN ValidationResult(FALSE, <<"Error checking syntax">>, <<>>)
    ELSE IF CompileFails(w.files[full])
         THEN ValidationResult(FALSE,
                  <<SyntaxErrorMessage(SyntaxErrorLine(w.files[full]), "invalid syntax")>>,
                  <<>>)
         ELSE ValidationResult(TRUE, <<>>, <<>>)

\* the lines of the linter's output that hold "error"
PylintErrors(text) == IF "l" \in Chars(text) THEN <<"E0602: error">> ELSE <<>>

EslintErrors(text) ==
    IF Chars(text) \cap {"l", "x", BT} # {} THEN <<"1:1: error">> ELSE <<>>

NoResult == [none |-> TRUE]

\* a linter run that reports success whatever it found
RunPylintLenient(e, w, full) ==
    IF ~e.pylint THEN NoResult
    ELSE ValidationResult(TRUE, PylintErrors(w.files[full]), <<>>)

\* CodeValidator._run_pylint: None when pylint is not installed
RunPylint(e, w, full) ==
    IF ~e.pylint THEN NoResult
    ELSE LET errors == PylintErrors(w.files[full])
         IN ValidationResult(errors = <<>>, errors, <<>>)

\* ValidationResult.__bool__ under "if result": None and a failed result are falsy
Truthy(result) == result # NoResult /\ result.success

\* CodeValidator._validate_python
ValidatePython(e, w, full) ==
    LET syntax_result == CheckPythonSyntax(w, full) IN
    IF ~syntax_result.success THEN syntax_result
    ELSE LET pylint_result == RunPylint(e, w, full) IN
         ValidationResult(
             syntax_result.success /\ (IF Truthy(pylint_result) THEN pylint_result.success ELSE TRUE),
             syntax_result.errors \o (IF Truthy(pylint_result) THEN pylint_result.errors ELSE <<>>),
             syntax_result.warnings \o (IF Truthy(pylint_result) THEN pylint_result.warnings ELSE <<>>))

\* CodeValidator._run_eslint
RunEslint(e, w, full) ==
    IF ~e.eslint \/ ~CanRead(w, full) THEN NoResult
    ELSE LET errors == EslintErrors(w.files[full])
         IN ValidationResult(errors = <<>>, errors, <<>>)

\* CodeValidator._validate_javascript
ValidateJavascript(e, w, full) ==
    LET eslint_result == RunEslint(e, w, full) IN
    IF Truthy(eslint_result) THEN eslint_result
    ELSE IF CanRead(w, full)
         THEN ValidationResult(TRUE, <<>>, <<"ESLint not available for detailed validation">>)
         ELSE ValidationResult(FALSE, <<"Error reading file">>, <<>>)

\* CodeValidator.validate_file, the verdict
ValidateVerdict(e, w, path) ==
    LET full == Join(e, path) IN
    IF ~Exists(w, full) THEN ValidationResult(FALSE, <<"File not found">>, <<>>)
    ELSE IF path.ext = "py" THEN ValidatePython(e, w, full)
    ELSE IF path.ext \in {"js", "jsx", "ts", "tsx"} THEN ValidateJavascript(e, w, full)
    ELSE ValidationResult(TRUE, <<>>, <<"No specific validation">>)

\* validate_file gets as far as running the linter on the file: the second
\* subprocess of _run_pylint or _run_eslint
Linted(e, w, path) ==
    LET full == Join(e, path) IN
    /\ Exists(w, full)
    /\ \/ path.ext = "py" /\ CheckPythonSyntax(w, full).success /\ e.pylint
       \/ path.ext \in {"js", "jsx", "ts", "tsx"} /\ e.eslint /\ CanRead(w, full)

\* CodeValidator.validate_file
ValidateFile(e, w, path) ==
    LET result == ValidateVerdict(e, w, path)
    IN [w |-> Logged(w, [ev |-> "validate", path |-> path, success |-> result.success,
                         linted |-> Linted(e, w, path)]),
        result |-> result]

-----------------------------------------------------------------------------
(* CodeGenerator                                                           *)

\* what a call hands back: the world after it, whether it raised, its value
Outcome(w, raised, value) == [w |-> w, raised |-> raised, value |-> value]

\* the call returns value to its caller
Returned(w, op, value) ==
    Outcome(Logged(w, [ev |-> "return", op |-> op, value |-> value]), FALSE, value)

\* CodeGenerator.generate_component, "Determine the appropriate path"
DefaultPath(ctype, name) ==
    IF ctype = "frontend" THEN Path(0, <<"frontend", "src", "components">>, name, "tsx")
    ELSE IF ctype = "backend" THEN Path(0, <<"src", "project">>, name, "py")
    ELSE Path(0, <<>>, name, "py")

Failed == [success |-> FALSE, path |-> NoPath]

\* a generator that saves whatever it extracted, nothing included
GenerateComponentUnchecked(e, w, ctype, name, description, path, response) ==
    LET p == IF path = NoPath THEN DefaultPath(ctype, name) ELSE path
        w1 == Asked(w, "component")
        extracted_code == ExtractCode(response)
        full_path == Join(e, p)
    IN IF response = <<>> THEN Outcome(w1, FALSE, Failed)
       ELSE IF ~CanMakeDirs(w1, DirOf(full_path)) THEN Outcome(w1, TRUE, Failed)
       ELSE LET w2 == MakeDirs(w1, DirOf(full_path)) IN
            IF ~CanWrite(w2, full_path) THEN Outcome(w2, FALSE, Failed)
            ELSE LET w3 == WriteFile(w2, full_path, extracted_code)
                     w4 == AddComponent(w3, ctype, name, p, description)
                     w5 == AddHistoryEntry(w4, "generate", p)
                 IN Outcome(w5, FALSE, [success |-> TRUE, path |-> p])

\* CodeGenerator.generate_component(component_type, name, description, path),
\* response being what the client answers
GenerateComponent(e, w, ctype, name, description, path, response) ==
    LET p == IF path = NoPath THEN DefaultPath(ctype, name) ELSE path
        w1 == Asked(w, "component")
        extracted_code == ExtractCode(response)
        full_path == Join(e, p)
    IN IF response = <<>> THEN Outcome(w1, FALSE, Failed)
       ELSE IF extracted_code = <<>> THEN Outcome(w1, FALSE, Failed)
       ELSE IF ~CanMakeDirs(w1, DirOf(full_path)) THEN Outcome(w1, TRUE, Failed)
       ELSE LET w2 == MakeDirs(w1, DirOf(full_path)) IN
            IF ~CanWrite(w2, full_path) THEN Outcome(w2, FALSE, Failed)
            ELSE LET w3 == WriteFile(w2, full_path, extracted_code)
                     w4 == AddComponent(w3, ctype, name, p, description)
                     w5 == AddHistoryEntry(w4, "generate", p)
                 IN Outcome(w5, FALSE, [success |-> TRUE, path |-> p])

(* The decomposition answer is a sequence of tokens: the JSON punctuation   *)
(* "[" "]" "{" "}" ",", whitespace "S" "N", other text "t", and one token   *)
(* for the members of each object the answer can hold ("?": members that    *)
(* are not JSON).                                                          *)

Objects ==
    [c1 |-> [type |-> "backend", name |-> "a", description |-> "d1",
             path |-> Path(0, <<>>, "a", "py")],
     c2 |-> [type |-> "frontend", name |-> "b", description |-> "d2",
             path |-> Path(0, <<>>, "b", "tsx")],
     c3 |-> [type |-> "backend", name |-> "tests", description |-> "d3",
             path |-> Path(0, <<>>, "tests", "")],
     c4 |-> [type |-> "backend", description |-> "d4",
             path |-> Path(0, <<>>, "c", "py")],
     c5 |-> [type |-> "model", name |-> "m", description |-> "d5", path |-> NoPath]]

NoMatch == <<"no match">>

TokenAt(t, i) == IF i >= 1 /\ i <= Len(t) THEN t[i] ELSE "end"

\* \[\s*\{ at index i: the index of the brace, 0 when it does not match
BraceAfter(t, i) ==
    LET j == i + 1 + SpaceRun(t, i + 1)
    IN IF TokenAt(t, i) = "[" /\ TokenAt(t, j) = "{" THEN j ELSE 0

\* \}\s*\] : the indexes e of a closing brace that a bracket follows
ArrayEnds(t, j) ==
    {e \in (j + 2)..Len(t) :
        t[e] = "}" /\ TokenAt(t, e + 1 + SpaceRun(t, e + 1)) = "]"}

ArrayStarts(t) == {i \in 1..Len(t) : BraceAfter(t, i) # 0 /\ ArrayEnds(t, BraceAfter(t, i)) # {}}

\* re.search(r"\[\s*\{[\s\S]+\}\s*\]", parsed_response).group(0): leftmost, greedy
JsonSearch(t) ==
    IF ArrayStarts(t) = {} THEN NoMatch
    ELSE LET i == MinOf(ArrayStarts(t))
             e == MaxOf(ArrayEnds(t, BraceAfter(t, i)))
         IN SubSeq(t, i, e + 1 + SpaceRun(t, e + 1))

RECURSIVE Unspaced(_)
Unspaced(t) ==
    IF t = <<>> THEN <<>>
    ELSE IF IsSpace(Head(t)) THEN Unspaced(Tail(t))
    ELSE <<Head(t)>> \o Unspaced(Tail(t))

\* the values of an array from index i of the unspaced text; a text that is
\* no array of objects gives ok = FALSE (json.JSONDecodeError)
RECURSIVE ParseValues(_, _, _)
ParseValues(s, i, acc) ==
    LET empty == TokenAt(s, i) = "{" /\ TokenAt(s, i + 1) = "}"
        full == /\ TokenAt(s, i) = "{"
                /\ TokenAt(s, i + 1) \in DOMAIN Objects
                /\ TokenAt(s, i + 2) = "}"
        next == IF empty THEN i + 2 ELSE i + 3
        value == IF empty THEN <<>> ELSE Objects[s[i + 1]]
    IN IF ~(empty \/ full) THEN [ok |-> FALSE, value |-> <<>>]
       ELSE IF TokenAt(s, next) = "," THEN ParseValues(s, next + 1, Append(acc, value))
       ELSE IF TokenAt(s, next) = "]" /\ next = Len(s)
            THEN [ok |-> TRUE, value |-> Append(acc, value)]
            ELSE [ok |-> FALSE, value |-> <<>>]

\* json.loads of the matched text
JsonLoads(m) ==
    IF TokenAt(Unspaced(m), 1) = "[" THEN ParseValues(Unspaced(m), 2, <<>>)
    ELSE [ok |-> FALSE, value |-> <<>>]

\* CodeGenerator.generate_from_description, "Add the requirements to the
\* project context"; a missing key raises KeyError
RECURSIVE AddRequirements(_, _, _)
AddRequirements(w, components_to_generate, i) ==
    IF i > Len(components_to_generate) THEN Outcome(w, FALSE, TRUE)
    ELSE LET component == components_to_generate[i] IN
         IF ~({"description", "type"} \subseteq DOMAIN component)
         THEN Outcome(w, TRUE, FALSE)
         ELSE AddRequirements(AddRequirement(w, component.description, component.type),
                              components_to_generate, i + 1)

\* CodeGenerator.generate_from_description, "Generate each component";
\* responses[i] is the client's answer for the i-th component
RECURSIVE GenerateEach(_, _, _, _, _, _)
RECURSIVE AfterComponent(_, _, _, _, _, _)

\* a generator that marks the component's requirement as done
AfterComponentCompleting(e, r, components_to_generate, responses, i, generated_components) ==
    LET component == components_to_generate[i] IN
    IF r.raised THEN Outcome(r.w, TRUE, generated_components)
    ELSE GenerateEach(e,
             IF r.value.success
             THEN UpdateRequirementStatus(r.w, Len(r.w.context.requirements) - 1,
                                          "completed")
             ELSE r.w,
             components_to_generate, responses, i + 1,
             IF r.value.success
             THEN Append(generated_components,
                         [type |-> component.type, name |-> component.name,
                          path |-> r.value.path])
             ELSE generated_components)

\* "if success: generated_components.append(...)", r being what
\* generate_component handed back for the i-th component
AfterComponent(e, r, components_to_generate, responses, i, generated_components) ==
    LET component == components_to_generate[i] IN
    IF r.raised THEN Outcome(r.w, TRUE, generated_components)
    ELSE GenerateEach(e, r.w, components_to_generate, responses, i + 1,
             IF r.value.success
             THEN Append(generated_components,
                         [type |-> component.type, name |-> component.name,
                          path |-> r.value.path])
             ELSE generated_components)

GenerateEach(e, w, components_to_generate, responses, i, generated_components) ==
    IF i > Len(components_to_generate) THEN Outcome(w, FALSE, generated_components)
    ELSE LET component == components_to_generate[i] IN
         IF ~({"type", "name", "description", "path"} \subseteq DOMAIN component)
         THEN Outcome(w, TRUE, generated_components)
         ELSE AfterComponent(e,
                  GenerateComponent(e, w, component.type, component.name,
                                    component.description, component.path, responses[i]),
                  components_to_generate, responses, i, generated_components)

\* the components are generated once every requirement was added
GenerateRequired(e, required, components_to_generate, responses) ==
    IF required.raised THEN Outcome(required.w, TRUE, <<>>)
    ELSE GenerateEach(e, required.w, components_to_generate, responses, 1, <<>>)

\* CodeGenerator.generate_from_description, "except Exception: return []"
Caught(outcome) ==
    Outcome(outcome.w, FALSE, IF outcome.raised THEN <<>> ELSE outcome.value)

\* a decomposition that records the answer as a requirement before it
\* searches it
GenerateFromDescriptionRecording(e, w, parsed_response, responses) ==
    LET w1 == AddRequirement(Asked(w, "parse"), "decomposition", "parsed")
        json_match == JsonSearch(parsed_response)
        loaded == JsonLoads(json_match)
    IN IF json_match = NoMatch THEN Outcome(w1, FALSE, <<>>)
       ELSE IF ~loaded.ok THEN Outcome(w1, FALSE, <<>>)
       ELSE Caught(GenerateRequired(e, AddRequirements(w1, loaded.value, 1),
                                    loaded.value, responses))

\* CodeGenerator.generate_from_description: every exception ends in return []
GenerateFromDescription(e, w, parsed_response, responses) ==
    LET w1 == Asked(w, "parse")
        json_match == JsonSearch(parsed_response)
        loaded == JsonLoads(json_match)
    IN IF json_match = NoMatch THEN Outcome(w1, FALSE, <<>>)
       ELSE IF ~loaded.ok THEN Outcome(w1, FALSE, <<>>)
       ELSE Caught(GenerateRequired(e, AddRequirements(w1, loaded.value, 1),
                                    loaded.value, responses))

-----------------------------------------------------------------------------
(* FeedbackLoop                                                            *)

RECURSIVE JoinSegs(_)
JoinSegs(segs) == IF segs = <<>> THEN "" ELSE Head(segs) \o "/" \o JoinSegs(Tail(segs))

RECURSIVE RootPrefix(_)
RootPrefix(n) == IF n = 0 THEN "" ELSE "project/" \o RootPrefix(n - 1)

\* the path as the string the code formats into ids and file names
PathStr(path) == RootPrefix(path.root) \o JoinSegs(path.dir) \o FileName(path)

\* hashlib.md5(f"{component_path}:{feedback_type}:{feedback_message}")[:8]:
\* one id per formatted string
EntryId(component_path, feedback_type, feedback_message) ==
    PathStr(component_path) \o ":" \o feedback_type \o ":" \o feedback_message

\* hashlib.md5(f"{error_message}:{file_path}:{line_number}:{column_number}")[:8]
ErrorId(error_message, file_path) ==
    error_message \o ":" \o PathStr(file_path) \o ":None:None"

\* FeedbackEntry.__init__
FeedbackEntry(entry_id, component_path, feedback_type, feedback_message) ==
    [entry_id |-> entry_id, component_path |-> component_path,
     feedback_type |-> feedback_type, feedback_message |-> feedback_message,
     resolved |-> FALSE, resolution |-> "None"]

\* FeedbackLoop._save_feedback: the whole document is rewritten; a failure
\* to open it is printed and the call returns
SaveFeedback(w) ==
    IF DirExists(w, FeedbackDir)
    THEN [w EXCEPT !.feedback_doc = [present |-> TRUE, data |-> w.feedback_entries]]
    ELSE w

\* ErrorCollector.add_error(error_message, file_path)
AddError(w, error_message, file_path) ==
    [w EXCEPT !.error_instances =
        (ErrorId(error_message, file_path) :>
            [error_message |-> error_message, file_path |-> file_path]) @@ @]

\* a store that files every report under an id of its own
AddFeedbackSerial(w, component_path, feedback_type, feedback_message) ==
    LET entry_id == EntryId(component_path, feedback_type, feedback_message)
                        \o "#" \o ToString(Cardinality(DOMAIN w.feedback_entries))
        entry == FeedbackEntry(entry_id, component_path, feedback_type, feedback_message)
        w1 == [w EXCEPT !.feedback_entries = (entry_id :> entry) @@ @]
        w2 == IF feedback_type = "error"
              THEN AddError(w1, feedback_message, component_path) ELSE w1
    IN Outcome(SaveFeedback(w2), FALSE, entry_id)

\* a store that reports whatever it is given to the collector
AddFeedbackForwarding(w, component_path, feedback_type, feedback_message) ==
    LET entry_id == EntryId(component_path, feedback_type, feedback_message)
        entry == FeedbackEntry(entry_id, component_path, feedback_type, feedback_message)
        w0 == Logged(w, [ev |-> "feedback", entry_id |-> entry_id,
                         replaced |-> entry_id \in DOMAIN w.feedback_entries])
        w1 == [w0 EXCEPT !.feedback_entries = (entry_id :> entry) @@ @]
    IN Outcome(SaveFeedback(AddError(w1, feedback_message, component_path)),
               FALSE, entry_id)

\* FeedbackLoop.add_feedback
AddFeedback(w, component_path, feedback_type, feedback_message) ==
    LET entry_id == EntryId(component_path, feedback_type, feedback_message)
        entry == FeedbackEntry(entry_id, component_path, feedback_type, feedback_message)
        w0 == Logged(w, [ev |-> "feedback", entry_id |-> entry_id,
                         replaced |-> entry_id \in DOMAIN w.feedback_entries])
        w1 == [w0 EXCEPT !.feedback_entries = (entry_id :> entry) @@ @]
        w2 == IF feedback_type = "error"
              THEN AddError(w1, feedback_message, component_path) ELSE w1
    IN Outcome(SaveFeedback(w2), FALSE, entry_id)

\* FeedbackLoop.mark_resolved
MarkResolved(w, entry_id, resolution) ==
    IF entry_id \notin DOMAIN w.feedback_entries THEN Outcome(w, FALSE, FALSE)
    ELSE Outcome(SaveFeedback([w EXCEPT !.feedback_entries[entry_id].resolved = TRUE,
                                        !.feedback_entries[entry_id].resolution = resolution]),
                 FALSE, TRUE)

\* a lookup that leaves out what is resolved
FeedbackForUnresolved(w, component_path) ==
    {id \in DOMAIN w.feedback_entries :
        /\ w.feedback_entries[id].component_path = component_path
        /\ ~w.feedback_entries[id].resolved}

\* FeedbackLoop.__init__: the entries start empty, the collector is new, the
\* feedback directory is made
NewFeedbackLoop(w) ==
    MakeDirs([w EXCEPT !.feedback_entries = <<>>, !.error_instances = <<>>],
             FeedbackDir)

\* FeedbackLoop.get_feedback_for_component, as the set of ids
FeedbackFor(w, component_path) ==
    {id \in DOMAIN w.feedback_entries :
        w.feedback_entries[id].component_path = component_path}

\* fence (?:\w+)?\n(.*?) fence with re.DOTALL, searched: the text of group 1
\* of the leftmost match, NoMatch when there is none
ImprovementStarts(t) ==
    {i \in 1..Len(t) :
        /\ FenceAt(t, i)
        /\ TokenAt(t, i + 3 + WordRun(t, i + 3)) = NL
        /\ \E n \in 0..Len(t) : FenceAt(t, i + 4 + WordRun(t, i + 3) + n)}

ImprovementBlock(t) ==
    IF ImprovementStarts(t) = {} THEN NoMatch
    ELSE LET i == MinOf(ImprovementStarts(t))
             p == i + 4 + WordRun(t, i + 3)
             n == MinOf({m \in 0..Len(t) : FenceAt(t, p + m)})
         IN SubSeq(t, p, p + n - 1)

\* f"- [{entry.feedback_type}] {entry.feedback_message}"
FeedbackLine(entry) == "- [" \o entry.feedback_type \o "] " \o entry.feedback_message

\* FeedbackLoop.generate_improvement: (success, improved_code); the request
\* is logged with the entries it was made from and the lines and the code
\* its prompt embeds
GenerateImprovement(e, w, component_path, response) ==
    LET full_path == Join(e, component_path)
        feedback == {w.feedback_entries[id] : id \in FeedbackFor(w, component_path)}
        w1 == Logged(w, [ev |-> "llm", kind |-> "improve", feedback |-> feedback,
                         lines |-> {FeedbackLine(entry) : entry \in feedback},
                         current_code |-> w.files[full_path]])
        code_match == ImprovementBlock(response)
        improved_code == IF code_match # NoMatch THEN code_match ELSE response
    IN IF FeedbackFor(w, component_path) = {} THEN Outcome(w, FALSE, [success |-> FALSE, code |-> <<>>])
       ELSE IF ~CanRead(w, full_path) THEN Outcome(w, FALSE, [success |-> FALSE, code |-> <<>>])
       ELSE Outcome(w1, FALSE, [success |-> TRUE, code |-> improved_code])

\* FeedbackLoop.apply_improvement, "Mark feedback as resolved"
ResolveAll(w, ids) ==
    SaveFeedback([w EXCEPT !.feedback_entries =
        [id \in DOMAIN @ |->
            IF id \in ids
            THEN [@[id] EXCEPT !.resolved = TRUE,
                               !.resolution = "Applied automatic improvement"]
            ELSE @[id]]])

BackupOf(f) == [f EXCEPT !.ext = @ \o ".bak"]

\* an improvement applied in place, the copy taken afterwards
ApplyImprovementInPlace(e, w, component_path, improved_code) ==
    LET full_path == Join(e, component_path)
        backup_path == BackupOf(full_path)
    IN IF ~CanRead(w, full_path) \/ ~CanWrite(w, backup_path) THEN Outcome(w, FALSE, FALSE)
       ELSE LET w1 == WriteFile(w, full_path, improved_code)
                w2 == WriteFile(w1, backup_path, w1.files[full_path])
                ids == FeedbackFor(w2, component_path)
            IN Outcome(IF ids = {} THEN w2 ELSE ResolveAll(w2, ids), FALSE, TRUE)

\* an improvement that keeps a backup it finds
ApplyImprovementKeepingBackup(e, w, component_path, improved_code) ==
    LET full_path == Join(e, component_path)
        backup_path == BackupOf(full_path)
    IN IF ~CanRead(w, full_path) \/ ~CanWrite(w, backup_path) THEN Outcome(w, FALSE, FALSE)
       ELSE LET w1 == IF Exists(w, backup_path) THEN w
                      ELSE WriteFile(w, backup_path, w.files[full_path])
                w2 == WriteFile(w1, full_path, improved_code)
                ids == FeedbackFor(w2, component_path)
            IN Outcome(IF ids = {} THEN w2 ELSE ResolveAll(w2, ids), FALSE, TRUE)

\* FeedbackLoop.apply_improvement
ApplyImprovement(e, w, component_path, improved_code) ==
    LET full_path == Join(e, component_path)
        backup_path == BackupOf(full_path)
    IN IF ~CanRead(w, full_path) \/ ~CanWrite(w, backup_path) THEN Outcome(w, FALSE, FALSE)
       ELSE LET w1 == WriteFile(w, backup_path, w.files[full_path])
                w2 == WriteFile(w1, full_path, improved_code)
                ids == FeedbackFor(w2, component_path)
            IN Outcome(IF ids = {} THEN w2 ELSE ResolveAll(w2, ids), FALSE, TRUE)

\* FeedbackLoop.improve_component
ImproveComponent(e, w, component_path, response) ==
    LET generated == GenerateImprovement(e, w, component_path, response)
    IN IF ~generated.value.success THEN Outcome(generated.w, FALSE, FALSE)
       ELSE ApplyImprovement(e, generated.w, component_path, generated.value.code)

-----------------------------------------------------------------------------
(* ProjectGenie                                                            *)

\* ProjectGenie.refine_component, "Add feedback": one entry per error
RECURSIVE AddErrorFeedback(_, _, _, _)
AddErrorFeedback(w, path, errors, i) ==
    IF i > Len(errors) THEN w
    ELSE AddErrorFeedback(AddFeedback(w, path, "error", errors[i]).w, path, errors, i + 1)

\* a refinement that reports success as soon as the refined code is written
RefineUnchecked(e, w, path, errors, response) ==
    LET full_path == Join(e, path)
        w0 == Logged(w, [ev |-> "refine", path |-> path])
        w1 == Asked(ReadFile(w0, full_path), "refine")
        refined_code == ExtractCode(response)
        w2 == WriteFile(w1, full_path, refined_code)
        w3 == AddHistoryEntry(w2, "refine", path)
        w4 == AddErrorFeedback(w3, path, errors, 1)
    IN IF ~CanRead(w0, full_path) THEN Returned(w0, "refine_component", FALSE)
       ELSE IF refined_code = <<>> THEN Returned(w1, "refine_component", FALSE)
       ELSE IF ~CanWrite(w1, full_path) THEN Returned(w1, "refine_component", FALSE)
       ELSE Returned(w4, "refine_component", TRUE)

\* a refinement that validates the refined code and reports success whatever
\* the verdict
RefineAnyVerdict(e, w, path, errors, response) ==
    LET full_path == Join(e, path)
        w0 == Logged(w, [ev |-> "refine", path |-> path])
        w1 == Asked(ReadFile(w0, full_path), "refine")
        refined_code == ExtractCode(response)
        w2 == WriteFile(w1, full_path, refined_code)
        w3 == AddHistoryEntry(w2, "refine", path)
        w4 == AddErrorFeedback(w3, path, errors, 1)
        validation == ValidateFile(e, w4, path)
    IN IF ~CanRead(w0, full_path) THEN Returned(w0, "refine_component", FALSE)
       ELSE IF refined_code = <<>> THEN Returned(w1, "refine_component", FALSE)
       ELSE IF ~CanWrite(w1, full_path) THEN Returned(w1, "refine_component", FALSE)
       ELSE Returned(validation.w, "refine_component", TRUE)

\* a refinement that goes on with whatever the client answered
RefineWithoutAnswer(e, w, path, errors, response) ==
    LET full_path == Join(e, path)
        w0 == Logged(w, [ev |-> "refine", path |-> path])
        w1 == Asked(ReadFile(w0, full_path), "refine")
        refined_code == ExtractCode(response)
        w2 == WriteFile(w1, full_path, refined_code)
        w3 == AddHistoryEntry(w2, "refine", path)
        w4 == AddErrorFeedback(w3, path, errors, 1)
        validation == ValidateFile(e, w4, path)
    IN IF ~CanRead(w0, full_path) THEN Returned(w0, "refine_component", FALSE)
       ELSE IF ~CanWrite(w1, full_path) THEN Returned(w1, "refine_component", FALSE)
       ELSE Returned(validation.w, "refine_component", validation.result.success)

\* ProjectGenie.refine_component(path, errors); every exception ends in
\* return False
RefineComponent(e, w, path, errors, response) ==
    LET full_path == Join(e, path)
        w0 == Logged(w, [ev |-> "refine", path |-> path])
        w1 == Asked(ReadFile(w0, full_path), "refine")
        refined_code == ExtractCode(response)
        w2 == WriteFile(w1, full_path, refined_code)
        w3 == AddHistoryEntry(w2, "refine", path)
        w4 == AddErrorFeedback(w3, path, errors, 1)
        validation == ValidateFile(e, w4, path)
    IN IF ~CanRead(w0, full_path) THEN Returned(w0, "refine_component", FALSE)
       ELSE IF refined_code = <<>> THEN Returned(w1, "refine_component", FALSE)
       ELSE IF ~CanWrite(w1, full_path) THEN Returned(w1, "refine_component", FALSE)
       ELSE Returned(validation.w, "refine_component", validation.result.success)

\* ProjectGenie.debug_component(path, issue_description)
DebugComponent(e, w, path, issue_description, response) ==
    LET full_path == Join(e, path)
        w0 == Logged(w, [ev |-> "debug", path |-> path])
        w1 == Asked(w0, "debug")
        debugged_code == ExtractCode(response)
        w2 == WriteFile(w1, full_path, debugged_code)
        w3 == AddHistoryEntry(w2, "debug", path)
        w4 == AddFeedback(w3, path, "issue", issue_description).w
    IN IF ~CanRead(w0, full_path) THEN Outcome(w0, FALSE, FALSE)
       ELSE IF debugged_code = <<>> THEN Outcome(w1, FALSE, FALSE)
       ELSE IF ~CanWrite(w1, full_path) THEN Outcome(w1, FALSE, FALSE)
       ELSE Outcome(w4, FALSE, TRUE)

-----------------------------------------------------------------------------
(* DBSchemaGenerator and TestGenerator                                     *)

\* fence (?:python|javascript|typescript)?\s*([\s\S]+?) fence, attempted at
\* index i (no text of the model spells one of the three language names):
\* the numbers of characters \s* may keep
TestBlockCands(t, i) ==
    IF ~FenceAt(t, i) THEN {}
    ELSE {k \in 0..SpaceRun(t, i + 3) :
             \E n \in 1..Len(t) : FenceAt(t, i + 3 + k + n)}

TestBlockStarts(t) == {i \in 1..Len(t) : TestBlockCands(t, i) # {}}

\* re.findall(code_block_pattern, tests)[0].strip(), else tests.strip()
ExtractBlock(response) ==
    IF TestBlockStarts(response) = {} THEN Strip(response)
    ELSE LET i == MinOf(TestBlockStarts(response))
             p == i + 3 + MaxOf(TestBlockCands(response, i))
             n == MinOf({m \in 1..Len(response) : FenceAt(response, p + m)})
         IN Strip(SubSeq(response, p, p + n - 1))

NoFile == [success |-> FALSE, text |-> <<>>, path |-> NoPath]

SchemaPath == Path(1, <<"database">>, "postgresql_schema", "sql")
ModelsPath == Path(1, <<"database">>, "models", "py")

\* DBSchemaGenerator.generate_schema: (success, schema, file_path)
GenerateSchema(w, response) ==
    LET w1 == Asked(w, "schema")
        schema_dir == DirOf(SchemaPath)
        w2 == MakeDirs(w1, schema_dir)
        w3 == WriteFile(w2, SchemaPath, response)
        w4 == AddComponent(w3, "database_schema", "postgresql_schema", SchemaPath, "schema")
        w5 == AddHistoryEntry(w4, "generate", SchemaPath)
    IN IF response = <<>> THEN Outcome(w1, FALSE, NoFile)
       ELSE IF ~CanMakeDirs(w1, schema_dir) THEN Outcome(w1, TRUE, NoFile)
       ELSE IF ~CanWrite(w2, SchemaPath)
            THEN Outcome(w2, FALSE, [success |-> FALSE, text |-> response, path |-> NoPath])
            ELSE Outcome(w5, FALSE, [success |-> TRUE, text |-> response, path |-> SchemaPath])

\* DBSchemaGenerator.generate_sqlalchemy_models: (success, models, file_path)
GenerateSqlalchemyModels(w, response) ==
    LET w1 == Asked(w, "models")
        models_code == ExtractBlock(response)
        models_dir == DirOf(ModelsPath)
        w2 == MakeDirs(w1, models_dir)
        w3 == WriteFile(w2, ModelsPath, models_code)
        w4 == AddComponent(w3, "database_models", "sqlalchemy_models", ModelsPath, "models")
        w5 == AddHistoryEntry(w4, "generate", ModelsPath)
    IN IF response = <<>> THEN Outcome(w1, FALSE, NoFile)
       ELSE IF ~CanMakeDirs(w1, models_dir) THEN Outcome(w1, TRUE, NoFile)
       ELSE IF ~CanWrite(w2, ModelsPath)
            THEN Outcome(w2, FALSE, [success |-> FALSE, text |-> models_code, path |-> NoPath])
            ELSE Outcome(w5, FALSE, [success |-> TRUE, text |-> models_code, path |-> ModelsPath])

\* component_type of the test generators, from the path's ending
LanguageOf(path) ==
    IF path.ext = "py" THEN "python"
    ELSE IF path.ext \in {"js", "jsx"} THEN "javascript"
    ELSE IF path.ext \in {"ts", "tsx"} THEN "typescript"
    ELSE "unknown"

\* component_path.split('.')[-1]: the whole path when it holds no dot
LastDotPart(path) == IF path.ext = "" THEN PathStr(path) ELSE path.ext

TestDir == [root |-> 1, segs |-> <<"tests">>]

\* TestGenerator.generate_unit_tests, "Create appropriate test filename"
UnitTestPath(component_path) ==
    IF LanguageOf(component_path) = "python"
    THEN Path(1, <<"tests">>, "test_" \o component_path.stem, "py")
    ELSE Path(1, <<"tests">>, component_path.stem \o ".test", LastDotPart(component_path))

\* TestGenerator.generate_unit_tests: (success, tests, file_path)
GenerateUnitTests(e, w, component_path, response) ==
    LET full_component_path == Join(e, component_path)
        w1 == Asked(w, "unit_test")
        tests_code == ExtractBlock(response)
        w2 == MakeDirs(w1, TestDir)
        file_path == UnitTestPath(component_path)
        w3 == WriteFile(w2, file_path, tests_code)
        w4 == AddComponent(w3, "unit_test", component_path.stem \o "_test", file_path, "tests")
        w5 == AddHistoryEntry(w4, "generate", file_path)
    IN IF ~Exists(w, full_component_path) THEN Outcome(w, FALSE, NoFile)
       ELSE IF ~CanRead(w, full_component_path) THEN Outcome(w, TRUE, NoFile)
       ELSE IF response = <<>> THEN Outcome(w1, FALSE, NoFile)
       ELSE IF ~CanMakeDirs(w1, TestDir) THEN Outcome(w1, TRUE, NoFile)
       ELSE IF ~CanWrite(w2, file_path)
            THEN Outcome(w2, FALSE, [success |-> FALSE, text |-> tests_code, path |-> NoPath])
            ELSE Outcome(w5, FALSE, [success |-> TRUE, text |-> tests_code, path |-> file_path])

\* TestGenerator.generate_integration_tests, "Get component details": the
\* paths that exist
RECURSIVE Found(_, _, _)
Found(e, w, component_paths) ==
    IF component_paths = <<>> THEN <<>>
    ELSE (IF Exists(w, Join(e, Head(component_paths))) THEN <<Head(component_paths)>> ELSE <<>>)
         \o Found(e, w, Tail(component_paths))

\* "_".join([c["name"] for c in components[:2]]), "_etc" after more than two
ComponentNames(components) ==
    (IF Len(components) = 1 THEN components[1].stem
     ELSE components[1].stem \o "_" \o components[2].stem)
    \o (IF Len(components) > 2 THEN "_etc" ELSE "")

\* TestGenerator.generate_integration_tests, "Create appropriate test filename"
IntegrationTestPath(component_paths, components) ==
    IF LanguageOf(components[1]) = "python"
    THEN Path(1, <<"tests">>, "test_integration_" \o ComponentNames(components), "py")
    ELSE Path(1, <<"tests">>, "integration_" \o ComponentNames(components) \o ".test",
              LastDotPart(component_paths[1]))

\* TestGenerator.generate_integration_tests: (success, tests, file_path)
GenerateIntegrationTests(e, w, component_paths, response) ==
    LET components == Found(e, w, component_paths)
        w1 == Asked(w, "integration_test")
        tests_code == ExtractBlock(response)
        w2 == MakeDirs(w1, TestDir)
        file_path == IntegrationTestPath(component_paths, components)
        w3 == WriteFile(w2, file_path, tests_code)
        w4 == AddComponent(w3, "integration_test",
                           "integration_" \o ComponentNames(components), file_path, "tests")
        w5 == AddHistoryEntry(w4, "generate", file_path)
    IN IF components = <<>> THEN Outcome(w, FALSE, NoFile)
       ELSE IF response = <<>> THEN Outcome(w1, FALSE, NoFile)
       ELSE IF ~CanMakeDirs(w1, TestDir) THEN Outcome(w1, TRUE, NoFile)
       ELSE IF ~CanWrite(w2, file_path)
            THEN Outcome(w2, FALSE, [success |-> FALSE, text |-> tests_code, path |-> NoPath])
            ELSE Outcome(w5, FALSE, [success |-> TRUE, text |-> tests_code, path |-> file_path])

-----------------------------------------------------------------------------
(* RuntimeValidator                                                        *)

\* RuntimeValidationResult.__init__; an output or execution_time that is not
\* given is "" or 0
RuntimeValidationResult(success, errors, warnings, output, execution_time) ==
    [success |-> success, errors |-> errors, warnings |-> warnings,
     output |-> output, execution_time |-> execution_time]

\* RuntimeValidator.__init__, timeout: int = 10
DefaultTimeout == 10

(* What the subprocess does is an input: the seconds it needs, its return  *)
(* code, what it writes to stderr and to stdout, and, for the wrapper      *)
(* scripts, what the last line of its stdout says. It has run past the     *)
(* timeout when it needs more seconds than the timeout gives it.           *)

OkRun == [seconds |-> 1, returncode |-> 0, stderr |-> "", stdout |-> "",
          answer |-> "success"]

\* exit 0, exit non-zero, or run past the default timeout
Runs == {OkRun,
         [OkRun EXCEPT !.returncode = 1, !.stderr = "Traceback", !.answer = "failure"],
         [OkRun EXCEPT !.seconds = DefaultTimeout + 1]}

\* the run of a Python file: source that does not compile exits non-zero
\* with a traceback whatever else the run would do
Interpreted(content, run) ==
    IF CompileFails(content)
    THEN [run EXCEPT !.returncode = 1, !.stderr = "Traceback"]
    ELSE run

\* a timeout that reports the seconds the process needs as the execution
\* time
TimedOutMeasured(timeout, seconds) ==
    RuntimeValidationResult(FALSE,
        <<"Execution timed out after " \o ToString(timeout) \o " seconds">>,
        <<>>, "", seconds)

\* except subprocess.TimeoutExpired
TimedOut(timeout, seconds) ==
    RuntimeValidationResult(FALSE,
        <<"Execution timed out after " \o ToString(timeout) \o " seconds">>,
        <<>>, "", timeout)

\* subprocess.run(cmd, timeout=self.timeout) and what validate_python_file
\* and validate_javascript_file make of it
Execute(timeout, process) ==
    IF process.seconds > timeout THEN TimedOut(timeout, process.seconds)
    ELSE IF process.returncode # 0
         THEN RuntimeValidationResult(FALSE,
                  <<"Execution failed with return code " \o ToString(process.returncode),
                    process.stderr>>,
                  <<>>, process.stdout, process.seconds)
         ELSE RuntimeValidationResult(TRUE, <<>>,
                  IF process.stderr # "" THEN <<process.stderr>> ELSE <<>>,
                  process.stdout, process.seconds)

\* RuntimeValidator.validate_python_file
ValidatePythonFile(e, w, file_path, run) ==
    LET full_path == Join(e, file_path) IN
    IF ~Exists(w, full_path)
    THEN RuntimeValidationResult(FALSE, <<"File not found">>, <<>>, "", 0)
    ELSE IF ~CanRead(w, full_path)
         THEN RuntimeValidationResult(FALSE, <<"Error executing file">>, <<>>, "", 0)
         ELSE Execute(e.timeout, Interpreted(w.files[full_path], run))

\* RuntimeValidator.validate_javascript_file
ValidateJavascriptFile(e, w, file_path, run) ==
    LET full_path == Join(e, file_path) IN
    IF ~Exists(w, full_path)
    THEN RuntimeValidationResult(FALSE, <<"File not found">>, <<>>, "", 0)
    ELSE IF ~e.node
         THEN RuntimeValidationResult(FALSE, <<"Node.js not found">>, <<>>, "", 0)
    ELSE IF ~CanRead(w, full_path)
         THEN RuntimeValidationResult(FALSE, <<"Error executing file">>, <<>>, "", 0)
         ELSE Execute(e.timeout, run)

\* what validate_python_function and validate_api_endpoint make of the
\* wrapper script's run under the timeout they give it
Wrapped(timeout, process, what) ==
    IF process.seconds > timeout
    THEN RuntimeValidationResult(FALSE,
             <<what \o " timed out after " \o ToString(timeout) \o " seconds">>,
             <<>>, "", timeout)
    ELSE IF process.answer = "success"
         THEN RuntimeValidationResult(TRUE, <<>>, <<>>, "result", process.seconds)
    ELSE IF process.answer = "failure"
         THEN RuntimeValidationResult(FALSE, <<"Unknown error">>, <<>>,
                                      process.stdout, process.seconds)
         ELSE RuntimeValidationResult(FALSE, <<"Failed to parse " \o what>>, <<>>,
                                      process.stdout, process.seconds)

\* RuntimeValidator.validate_python_function
ValidatePythonFunction(e, w, file_path, run) ==
    LET full_path == Join(e, file_path) IN
    IF ~Exists(w, full_path)
    THEN RuntimeValidationResult(FALSE, <<"File not found">>, <<>>, "", 0)
    ELSE IF ~CanRead(w, full_path)
         THEN RuntimeValidationResult(FALSE, <<"Error executing function">>, <<>>, "", 0)
         ELSE Wrapped(e.timeout, run, "Function execution")

\* RuntimeValidator.validate_api_endpoint: the wrapper gets twice the timeout
ValidateApiEndpoint(e, w, file_path, run) ==
    LET full_path == Join(e, file_path) IN
    IF ~Exists(w, full_path)
    THEN RuntimeValidationResult(FALSE, <<"File not found">>, <<>>, "", 0)
    ELSE IF ~CanRead(w, full_path)
         THEN RuntimeValidationResult(FALSE, <<"Error validating API endpoint">>,
                                      <<>>, "", 0)
         ELSE Wrapped(e.timeout * 2, run, "API request")

\* ProjectGenie.validate_component_runtime
ValidateComponentRuntime(e, w, path, run) ==
    [w |-> Logged(w, [ev |-> "runtime", path |-> path]),
     result |->
        IF path.ext = "py" THEN ValidatePythonFile(e, w, path, run)
        ELSE IF path.ext \in {"js", "jsx", "ts", "tsx"}
             THEN ValidateJavascriptFile(e, w, path, run)
             ELSE RuntimeValidationResult(FALSE, <<"Unsupported file type">>, <<>>, "", 0)]

-----------------------------------------------------------------------------
(* ProjectGenie, the orchestrated flows                                    *)

\* generate_from_description and generate_multi_component_project, the body
\* of "for component in components": static validation, then one refinement
\* when it fails
ValidateAndRefine(e, w, component, response) ==
    LET validation_result == ValidateFile(e, w, component.path)
    IN IF validation_result.result.success THEN validation_result.w
       ELSE RefineComponent(e, validation_result.w, component.path,
                            validation_result.result.errors, response).w

\* generate_multi_component_project, "Add feedback" for each runtime error
RECURSIVE AddRuntimeFeedback(_, _, _, _)
AddRuntimeFeedback(w, path, errors, i) ==
    IF i > Len(errors) THEN w
    ELSE AddRuntimeFeedback(AddFeedback(w, path, "runtime_error", errors[i]).w,
                            path, errors, i + 1)

\* a runtime validation of every Python file, the tests included
NeedsRuntimeAnyPython(component) == component.path.ext = "py"

\* generate_multi_component_project, "Runtime validation for Python files"
NeedsRuntime(component) ==
    component.path.ext = "py" /\ component.type \notin {"unit_test", "integration_test"}

RuntimeAndImprove(e, w, component, run, response) ==
    IF ~NeedsRuntime(component) THEN w
    ELSE LET runtime_result == ValidateComponentRuntime(e, w, component.path, run)
             w1 == AddRuntimeFeedback(runtime_result.w, component.path,
                                      runtime_result.result.errors, 1)
         IN IF runtime_result.result.success THEN runtime_result.w
            ELSE ImproveComponent(e, w1, component.path, response).w

-----------------------------------------------------------------------------
(* ErrorCollector (error_collector.py). An error message and a regular     *)
(* expression are sequences of characters; in a regular expression "."     *)
(* stands for any character and "(" opens a group that is never closed.    *)
(* A dict is the sequence of its items, each a key and a value, in         *)
(* insertion order. An absent argument (None) is the empty sequence, a     *)
(* given one the sequence of that one value. The context and the timestamp *)
(* of an instance play no part in any operation and are left out.          *)

None == <<>>
Some(v) == <<v>>

Has(dict, key) == \E n \in 1..Len(dict) : dict[n].key = key

Get(dict, key) == dict[CHOOSE n \in 1..Len(dict) : dict[n].key = key].value

\* a dict that keeps one more item for every assignment
PutAppending(dict, key, value) == Append(dict, [key |-> key, value |-> value])

\* dict[key] = value: a key the dict holds keeps its place
Put(dict, key, value) ==
    IF Has(dict, key)
    THEN [n \in 1..Len(dict) |->
            IF dict[n].key = key THEN [key |-> key, value |-> value] ELSE dict[n]]
    ELSE Append(dict, [key |-> key, value |-> value])

\* hashlib.md5(text).hexdigest()[:8], two texts never sharing a digest
Md5(text) == [md5 |-> text]

\* re.compile(pattern) returns
Compiles(pattern) == \A k \in 1..Len(pattern) : pattern[k] # "("

\* ErrorPattern.__init__
ErrorPattern(pattern_id, pattern, description, examples, fix_suggestions) ==
    [pattern_id |-> pattern_id, pattern |-> pattern, description |-> description,
     examples |-> examples, fix_suggestions |-> fix_suggestions]

\* the compiled pattern matches the characters of the error from position i on
MatchesAt(pattern, error, i) ==
    /\ i + Len(pattern) - 1 <= Len(error)
    /\ \A k \in 1..Len(pattern) :
          pattern[k] = "." \/ pattern[k] = error[i + k - 1]

\* a pattern that has to match the whole error
MatchesWhole(pattern, error) ==
    Len(pattern.pattern) = Len(error) /\ MatchesAt(pattern.pattern, error, 1)

\* ErrorPattern.matches: compiled_pattern.search(error)
Matches(pattern, error) ==
    \E i \in 1..(Len(error) + 1) : MatchesAt(pattern.pattern, error, i)

\* f"{value}" of an optional text
Formatted(value) ==
    IF value = None THEN <<"N", "o", "n", "e">> ELSE value[1]

\* f"{value}" of an optional number
FormattedNumber(value) ==
    IF value = None THEN <<"N", "o", "n", "e">> ELSE <<ToString(value[1])>>

\* the id add_error gives an error
ErrorIdAt(error_message, file_path, line_number, column_number) ==
    Md5(error_message \o <<":">> \o Formatted(file_path) \o <<":">>
            \o FormattedNumber(line_number) \o <<":">>
            \o FormattedNumber(column_number))

\* ErrorCollector._load_built_in_patterns: the library, here two patterns
BuiltInPatterns ==
    <<[key |-> Md5(<<"a">>),
       value |-> ErrorPattern(Md5(<<"a">>), <<"a">>, "built in", <<>>, <<"fix a">>)],
      [key |-> Md5(<<"b">>),
       value |-> ErrorPattern(Md5(<<"b">>), <<"b">>, "built in", <<>>, <<"fix b">>)]>>

\* ErrorCollector.__init__
NewErrorCollector ==
    [error_patterns |-> BuiltInPatterns, error_instances |-> <<>>]

\* no file of error data has been written
NoErrorData == [present |-> FALSE, data |-> [patterns |-> <<>>, errors |-> <<>>]]

\* a registration that also matches the new pattern against the instances
\* stored so far
AddErrorPatternRematching(c, pattern, description, examples, fix_suggestions) ==
    LET pattern_id == Md5(pattern)
        error_pattern ==
            ErrorPattern(pattern_id, pattern, description, examples, fix_suggestions)
        Rematched(item) ==
            IF Matches(error_pattern, item.value.error_message)
               /\ \A n \in 1..Len(item.value.matched_patterns) :
                      item.value.matched_patterns[n] # pattern_id
            THEN [item EXCEPT !.value.matched_patterns = Append(@, pattern_id)]
            ELSE item
    IN IF ~Compiles(pattern) THEN [c |-> c, raised |-> TRUE, value |-> None]
       ELSE [c |-> [error_patterns |-> Put(c.error_patterns, pattern_id, error_pattern),
                    error_instances |-> [n \in 1..Len(c.error_instances) |->
                                            Rematched(c.error_instances[n])]],
             raised |-> FALSE, value |-> pattern_id]

\* ErrorCollector.add_error_pattern: [c, raised, value]
AddErrorPattern(c, pattern, description, examples, fix_suggestions) ==
    LET pattern_id == Md5(pattern)
        error_pattern ==
            ErrorPattern(pattern_id, pattern, description, examples, fix_suggestions)
    IN IF ~Compiles(pattern) THEN [c |-> c, raised |-> TRUE, value |-> None]
       ELSE [c |-> [c EXCEPT !.error_patterns = Put(@, pattern_id, error_pattern)],
             raised |-> FALSE, value |-> pattern_id]

\* an instance that names only the first pattern that matches
FirstMatched(error_patterns, error_message) ==
    LET ms == {n \in 1..Len(error_patterns) :
                  Matches(error_patterns[n].value, error_message)}
    IN IF ms = {} THEN <<>>
       ELSE <<error_patterns[CHOOSE n \in ms : \A m \in ms : n <= m].key>>

\* the loop of add_error over error_patterns.items(): the ids of the
\* patterns that match, in the order of the dict
MatchedPatterns(error_patterns, error_message) ==
    LET Test(item) == Matches(item.value, error_message)
        matched == SelectSeq(error_patterns, Test)
    IN [n \in 1..Len(matched) |-> matched[n].key]

\* ErrorCollector.add_error: [c, raised, value]
AddErrorAt(c, error_message, file_path, line_number, column_number) ==
    LET error_id == ErrorIdAt(error_message, file_path, line_number, column_number)
        error_instance ==
            [error_id |-> error_id, error_message |-> error_message,
             file_path |-> file_path, line_number |-> line_number,
             column_number |-> column_number,
             matched_patterns |-> MatchedPatterns(c.error_patterns, error_message)]
    IN [c |-> [c EXCEPT !.error_instances = Put(@, error_id, error_instance)],
        raised |-> FALSE, value |-> error_id]

RECURSIVE CountPatterns(_, _, _)
\* the loops of get_most_common_patterns: pattern_counts after the matched
\* patterns of the instances from the n-th on
CountPatterns(instances, n, pattern_counts) ==
    IF n > Len(instances) THEN pattern_counts
    ELSE LET matched == instances[n].value.matched_patterns
             Counted[k \in 0..Len(matched)] ==
                 IF k = 0 THEN pattern_counts
                 ELSE Put(Counted[k - 1], matched[k],
                          IF Has(Counted[k - 1], matched[k])
                          THEN Get(Counted[k - 1], matched[k]) + 1 ELSE 1)
         IN CountPatterns(instances, n + 1, Counted[Len(matched)])

\* a sort that puts an item before those of the same count sorted earlier
SortedUnstable(items) ==
    LET Sorted[n \in 0..Len(items)] ==
            IF n = 0 THEN <<>>
            ELSE LET before == {j \in 1..Len(Sorted[n - 1]) :
                                   Sorted[n - 1][j].value > items[n].value}
                     p == Cardinality(before)
                 IN SubSeq(Sorted[n - 1], 1, p) \o <<items[n]>>
                        \o SubSeq(Sorted[n - 1], p + 1, Len(Sorted[n - 1]))
    IN Sorted[Len(items)]

\* sorted(items, key=lambda x: x[1], reverse=True): descending by count,
\* items of the same count in the order they came in
SortedByCount(items) ==
    LET Sorted[n \in 0..Len(items)] ==
            IF n = 0 THEN <<>>
            ELSE LET before == {j \in 1..Len(Sorted[n - 1]) :
                                   Sorted[n - 1][j].value >= items[n].value}
                     p == Cardinality(before)
                 IN SubSeq(Sorted[n - 1], 1, p) \o <<items[n]>>
                        \o SubSeq(Sorted[n - 1], p + 1, Len(Sorted[n - 1]))
    IN Sorted[Len(items)]

\* items[:limit]
Slice(items, limit) ==
    IF limit >= 0 THEN SubSeq(items, 1, IF limit < Len(items) THEN limit ELSE Len(items))
    ELSE SubSeq(items, 1, Len(items) + limit)

\* ErrorCollector.get_most_common_patterns
GetMostCommonPatterns(c, limit) ==
    Slice(SortedByCount(CountPatterns(c.error_instances, 1, <<>>)), limit)

\* ErrorCollector.get_errors_by_pattern: the instances, in the order of the
\* dict, that name the id among their matched patterns
GetErrorsByPattern(c, pattern_id) ==
    LET Names(item) ==
            \E n \in 1..Len(item.value.matched_patterns) :
                item.value.matched_patterns[n] = pattern_id
        named == SelectSeq(c.error_instances, Names)
    IN [n \in 1..Len(named) |-> named[n].value]

\* ErrorCollector.get_fix_suggestions
GetFixSuggestions(c, error_id) ==
    IF ~Has(c.error_instances, error_id) THEN <<>>
    ELSE LET matched == Get(c.error_instances, error_id).matched_patterns
             Extended[k \in 0..Len(matched)] ==
                 IF k = 0 THEN <<>>
                 ELSE IF Has(c.error_patterns, matched[k])
                 THEN Extended[k - 1] \o Get(c.error_patterns, matched[k]).fix_suggestions
                 ELSE Extended[k - 1]
         IN Extended[Len(matched)]

\* ErrorCollector.save_to_file: the file holds both dicts
SaveToFile(c) == [present |-> TRUE,
                  data |-> [patterns |-> c.error_patterns, errors |-> c.error_instances]]

\* ErrorCollector.load_from_file: both dicts are replaced by those of the
\* file; without the file the collector is left as it is and False returned
LoadFromFile(c, data) ==
    IF ~data.present THEN [c |-> c, raised |-> FALSE, value |-> FALSE]
    ELSE [c |-> [error_patterns |-> data.data.patterns,
                 error_instances |-> data.data.errors],
          raised |-> FALSE, value |-> TRUE]

-----------------------------------------------------------------------------
(* The state and its steps                                                 *)

\* the project as the operators above see it
World ==
    [files |-> files, dirs |-> dirs, context |-> context, context_doc |-> context_doc,
     feedback_entries |-> feedback_entries, feedback_doc |-> feedback_doc,
     error_instances |-> error_instances, log |-> <<>>]

Becomes(w) ==
    /\ files' = w.files
    /\ dirs' = w.dirs
    /\ context' = w.context
    /\ context_doc' = w.context_doc
    /\ feedback_entries' = w.feedback_entries
    /\ feedback_doc' = w.feedback_doc
    /\ error_instances' = w.error_instances
    /\ log' = w.log

NoFlow ==
    [kind |-> "none", include_database |-> FALSE, include_tests |-> FALSE,
     components |-> <<>>, i |-> 1, k |-> 1, validated |-> {}]

NoReturn == [op |-> "none", raised |-> FALSE, value |-> <<>>]

\* no second instance
NoOther == [context |-> DefaultContext, feedback_entries |-> <<>>]

\* no subprocess.run is waiting
NoSubprocess ==
    [op |-> "none", path |-> NoPath, process |-> OkRun, timeout |-> None, elapsed |-> 0]

Timeouts == {DefaultTimeout \div 2, DefaultTimeout}

Environments ==
    [pylint : BOOLEAN, eslint : BOOLEAN, node : BOOLEAN, relative_root : BOOLEAN,
     timeout : Timeouts]

\* the installations the flows are walked under: the linters and node are
\* installed, the project path is absolute or a relative name
FlowEnvironments ==
    [pylint : {TRUE}, eslint : {TRUE}, node : {TRUE}, relative_root : BOOLEAN,
     timeout : {DefaultTimeout}]

\* ProjectGenie.__init__ on an empty project directory
Init ==
    /\ files = <<>>
    /\ dirs = {ProjectDir, FeedbackDir}
    /\ context = DefaultContext
    /\ context_doc = [present |-> FALSE, data |-> DefaultContext]
    /\ feedback_entries = <<>>
    /\ feedback_doc = [present |-> FALSE, data |-> <<>>]
    /\ error_instances = <<>>
    /\ log = <<>>
    /\ pc = "idle"
    /\ flow = NoFlow
    /\ ret = NoReturn
    /\ env \in FlowEnvironments
    /\ calls = 0
    /\ other = NoOther
    /\ error_collector = NewErrorCollector
    /\ error_data = NoErrorData
    /\ subprocess = NoSubprocess

-----------------------------------------------------------------------------
(* What the text-generation client can answer                              *)

\* answers to a request for code: nothing, code that is fine, code that does
\* not compile
Answers == {<<>>, <<"g">>, <<"x">>}

\* answers to the requests for a schema, tests and an improvement: nothing,
\* or text that is fine
TextAnswers == {<<>>, <<"g">>}

\* answers to the decomposition request
Decompositions ==
    {<<>>,
     <<"t">>,
     <<"[", "{", "c1", "}", "]">>,
     <<"t", "N", "[", "S", "{", "c1", "}", ",", "S", "{", "c2", "}", "N", "]", "t">>,
     <<"[", "{", "c1", "}", ",", "{", "c4", "}", "]">>,
     <<"[", "{", "c3", "}", ",", "{", "c1", "}", "]">>,
     <<"[", "{", "c5", "}", "]">>,
     <<"[", "{", "?", "}", "]">>,
     <<"t", "[", "{", "c1", "}">>}

\* the components the decomposition answer asks for
Asked_for(parsed_response) == JsonLoads(JsonSearch(parsed_response)).value

-----------------------------------------------------------------------------
(* ProjectGenie.generate_from_description                                  *)

\* lines 59-63: the description becomes a requirement, the code generator
\* decomposes it and generates the components
Started(kind, include_database, include_tests, generated) ==
    /\ Becomes(generated.w)
    /\ flow' = [NoFlow EXCEPT !.kind = kind,
                              !.include_database = include_database,
                              !.include_tests = include_tests,
                              !.components = generated.value]

GenieStart ==
    /\ pc = "idle"
    /\ \E parsed_response \in Decompositions :
       \E responses \in [1..Len(Asked_for(parsed_response)) -> Answers] :
          Started("genie", FALSE, FALSE,
                  GenerateFromDescription(
                      env, AddRequirement(World, "description", "user_description"),
                      parsed_response, responses))
    /\ pc' = "validate"
    /\ UNCHANGED <<ret, env, calls, other, error_collector, error_data, subprocess>>

\* lines 66-79: one turn of "for component in components"
GenieValidate ==
    /\ pc = "validate"
    /\ flow.kind = "genie"
    /\ flow.k <= Len(flow.components)
    /\ \E response \in Answers :
          Becomes(ValidateAndRefine(env, World, flow.components[flow.k], response))
    /\ flow' = [flow EXCEPT !.k = @ + 1,
                            !.validated = @ \cup {flow.components[flow.k].path}]
    /\ UNCHANGED <<pc, ret, env, calls, other, error_collector, error_data, subprocess>>

\* line 81
GenieReturn ==
    /\ pc = "validate"
    /\ flow.kind = "genie"
    /\ flow.k > Len(flow.components)
    /\ pc' = "done"
    /\ ret' = [op |-> "generate_from_description", raised |-> FALSE,
               value |-> flow.components]
    /\ log' = <<>>
    /\ UNCHANGED <<files, dirs, context, context_doc, feedback_entries, feedback_doc,
                   error_instances, flow, env, calls, other, error_collector, error_data, subprocess>>

\* ProjectGenie.debug_component on a component the flow returned
GenieDebug ==
    /\ pc = "done"
    /\ flow.kind = "genie"
    /\ \E n \in 1..Len(flow.components), response \in Answers :
          LET debugged == DebugComponent(env, World, flow.components[n].path,
                                         "boom", response)
          IN /\ Becomes(debugged.w)
             /\ ret' = [op |-> "debug_component", raised |-> FALSE,
                        value |-> debugged.value]
    /\ pc' = "debugged"
    /\ UNCHANGED <<flow, env, calls, other, error_collector, error_data, subprocess>>

-----------------------------------------------------------------------------
(* ProjectGenie.generate_multi_component_project                           *)

\* lines 462-465
MultiStart ==
    /\ pc = "idle"
    /\ \E include_database \in BOOLEAN, include_tests \in BOOLEAN :
       \E parsed_response \in Decompositions :
       \E responses \in [1..Len(Asked_for(parsed_response)) -> Answers] :
          Started("multi", include_database, include_tests,
                  GenerateFromDescription(
                      env, AddRequirement(World, "description", "user_description"),
                      parsed_response, responses))
    /\ pc' = "database"
    /\ UNCHANGED <<ret, env, calls, other, error_collector, error_data, subprocess>>

\* lines 468-500, "Generate database schema if requested": the schema and
\* the models are listed only when both were generated
DatabaseStage(w, components, schema_response, models_response) ==
    LET w1 == Asked(w, "requirements")
        schema == GenerateSchema(w1, schema_response)
        models == GenerateSqlalchemyModels(schema.w, models_response)
    IN IF schema.raised THEN Outcome(schema.w, TRUE, components)
       ELSE IF ~schema.value.success THEN Outcome(schema.w, FALSE, components)
       ELSE IF models.raised THEN Outcome(models.w, TRUE, components)
       ELSE IF ~models.value.success THEN Outcome(models.w, FALSE, components)
       ELSE Outcome(models.w, FALSE,
                components \o <<[type |-> "database_schema", name |-> "postgresql_schema",
                                 path |-> schema.value.path],
                                [type |-> "database_models", name |-> "sqlalchemy_models",
                                 path |-> models.value.path]>>)

\* what the call does when a stage let an exception through
Raise ==
    /\ pc' = "raised"
    /\ ret' = [op |-> "generate_multi_component_project", raised |-> TRUE, value |-> <<>>]

\* line 503, "if include_tests and components"
AfterDatabase(components) ==
    IF flow.include_tests /\ components # <<>> THEN "unit" ELSE "validate"

MultiDatabase ==
    /\ pc = "database"
    /\ \E schema_response \in TextAnswers, models_response \in Answers :
          LET stage == IF flow.include_database
                       THEN DatabaseStage(World, flow.components,
                                          schema_response, models_response)
                       ELSE Outcome(World, FALSE, flow.components)
          IN /\ Becomes(stage.w)
             /\ flow' = [flow EXCEPT !.components = stage.value]
             /\ IF stage.raised THEN Raise
                ELSE pc' = AfterDatabase(stage.value) /\ ret' = ret
    /\ UNCHANGED <<env, calls, other, error_collector, error_data, subprocess>>

\* a unit-test stage that also tests the tests it generated
UnitTestedWithTests(component) ==
    component.type \in {"frontend", "backend", "database_models", "unit_test"}

\* line 506, if component["type"] in ["frontend", "backend", "database_models"]
UnitTested(component) ==
    component.type \in {"frontend", "backend", "database_models"}

\* lines 505-514, one turn of "for component in components": the list grows
\* while it is walked
MultiUnitTest ==
    /\ pc = "unit"
    /\ flow.i <= Len(flow.components)
    /\ \E response \in TextAnswers :
          LET component == flow.components[flow.i]
              tests == IF UnitTested(component)
                       THEN GenerateUnitTests(env, World, component.path, response)
                       ELSE Outcome(World, FALSE, NoFile)
          IN /\ Becomes(tests.w)
             /\ flow' = [flow EXCEPT
                    !.i = @ + 1,
                    !.components =
                        IF tests.value.success
                        THEN Append(@, [type |-> "unit_test",
                                        name |-> component.name \o "_test",
                                        path |-> tests.value.path])
                        ELSE @]
             /\ IF tests.raised THEN Raise ELSE pc' = pc /\ ret' = ret
    /\ UNCHANGED <<env, calls, other, error_collector, error_data, subprocess>>

RECURSIVE PathsOfType(_, _)
PathsOfType(components, type) ==
    IF components = <<>> THEN <<>>
    ELSE (IF Head(components).type = type THEN <<Head(components).path>> ELSE <<>>)
         \o PathsOfType(Tail(components), type)

FirstOf(paths) == SubSeq(paths, 1, 1)

\* lines 517-545, "Generate integration tests for related components"
IntegrationStage(e, w, components, response1, response2) ==
    LET frontend_components == PathsOfType(components, "frontend")
        backend_components == PathsOfType(components, "backend")
        model_components == PathsOfType(components, "database_models")
        first == IF frontend_components # <<>> /\ backend_components # <<>>
                 THEN GenerateIntegrationTests(e, w,
                          FirstOf(frontend_components) \o FirstOf(backend_components),
                          response1)
                 ELSE Outcome(w, FALSE, NoFile)
        listed1 == IF first.value.success
                   THEN Append(components,
                            [type |-> "integration_test",
                             name |-> "frontend_backend_integration",
                             path |-> first.value.path])
                   ELSE components
        second == IF backend_components # <<>> /\ model_components # <<>>
                  THEN GenerateIntegrationTests(e, first.w,
                           FirstOf(backend_components) \o FirstOf(model_components),
                           response2)
                  ELSE Outcome(first.w, FALSE, NoFile)
        listed2 == IF second.value.success
                   THEN Append(listed1,
                            [type |-> "integration_test",
                             name |-> "backend_model_integration",
                             path |-> second.value.path])
                   ELSE listed1
    IN IF Len(components) < 2 THEN Outcome(w, FALSE, components)
       ELSE IF first.raised THEN Outcome(first.w, TRUE, listed1)
       ELSE Outcome(second.w, second.raised, listed2)

MultiIntegration ==
    /\ pc = "unit"
    /\ flow.i > Len(flow.components)
    /\ \E response1 \in TextAnswers, response2 \in TextAnswers :
          LET stage == IntegrationStage(env, World, flow.components, response1, response2)
          IN /\ Becomes(stage.w)
             /\ flow' = [flow EXCEPT !.components = stage.value]
             /\ IF stage.raised THEN Raise ELSE pc' = "validate" /\ ret' = ret
    /\ UNCHANGED <<env, calls, other, error_collector, error_data, subprocess>>

\* lines 548-584, one turn of "for component in components"
MultiValidate ==
    /\ pc = "validate"
    /\ flow.kind = "multi"
    /\ flow.k <= Len(flow.components)
    /\ \E refine_response \in Answers, run \in Runs, improve_response \in TextAnswers :
          LET component == flow.components[flow.k]
              w1 == ValidateAndRefine(env, World, component, refine_response)
          IN Becomes(RuntimeAndImprove(env, w1, component, run, improve_response))
    /\ flow' = [flow EXCEPT !.k = @ + 1,
                            !.validated = @ \cup {flow.components[flow.k].path}]
    /\ UNCHANGED <<pc, ret, env, calls, other, error_collector, error_data, subprocess>>

\* lines 586-592: the analysis changes nothing of the project, its failure
\* is caught
MultiReturn ==
    /\ pc = "validate"
    /\ flow.kind = "multi"
    /\ flow.k > Len(flow.components)
    /\ pc' = "done"
    /\ ret' = [op |-> "generate_multi_component_project", raised |-> FALSE,
               value |-> flow.components]
    /\ log' = <<>>
    /\ UNCHANGED <<files, dirs, context, context_doc, feedback_entries, feedback_doc,
                   error_instances, flow, env, calls, other, error_collector, error_data, subprocess>>

Next ==
    \/ GenieStart
    \/ GenieValidate
    \/ GenieReturn
    \/ GenieDebug
    \/ MultiStart
    \/ MultiDatabase
    \/ MultiUnitTest
    \/ MultiIntegration
    \/ MultiValidate
    \/ MultiReturn

Spec == Init /\ [][Next]_vars

-----------------------------------------------------------------------------
(* Properties of refine_component                                          *)

\* the positions of the log where refine_component returned True
RefinedAt ==
    {r \in 1..Len(log) :
        /\ log[r].ev = "return"
        /\ log[r].op = "refine_component"
        /\ log[r].value = TRUE}

\* the position where the call that returned at r began
BeganAt(r) == MaxOf({s \in 1..r : log[s].ev = "refine"})

\* the positions between s and r where the file was written
WritesOf(file, s, r) == {n \in s..r : log[n].ev = "write" /\ log[n].file = file}

\* C1: refine_component returns True only if a static validation of the
\* component, started after the refined code was written to its file and
\* with no later write to it, reported success.
RefineRevalidates ==
    \A r \in RefinedAt :
        LET s == BeganAt(r)
            file == Join(env, log[s].path)
        IN \E v \in s..r :
              /\ log[v].ev = "validate"
              /\ log[v].path = log[s].path
              /\ log[v].success
              /\ WritesOf(file, s, v) # {}
              /\ WritesOf(file, v, r) = {}

\* a refinement returned True in the step just taken
RefineSucceeded == RefinedAt # {}

\* C3: whenever refine_component returns True, the text it wrote to the
\* component file differs from the text it read there, the text that had
\* failed validation.
RefineChangesContent ==
    \A r \in RefinedAt :
        LET s == BeganAt(r) IN
        \A rd \in s..r, wr \in s..r :
            (/\ log[rd].ev = "read"
             /\ log[wr].ev = "write"
             /\ log[wr].file = log[rd].file) => log[wr].text # log[rd].text

\* a refinement returned True on a file whose failing text it had read
RefineSucceededOnFailing ==
    \E r \in RefinedAt :
        \E rd \in BeganAt(r)..r, v \in 1..BeganAt(r) :
            /\ log[rd].ev = "read"
            /\ log[v].ev = "validate"
            /\ ~log[v].success
            /\ CompileFails(log[rd].text)

-----------------------------------------------------------------------------
(* Properties of the orchestrated flows                                    *)

\* the step just taken was one turn of a flow's validation loop
ValidatedStep == log # <<>> /\ log[1].ev = "validate"

EventsOf(kind) == {n \in 1..Len(log) : log[n].ev = kind}

RefineRequests == {n \in EventsOf("llm") : log[n].kind = "refine"}

\* C2: in both flows a component whose static validation fails gets exactly
\* one refine_component call, which makes exactly one refinement request to
\* the client, and a component whose validation passes gets neither.
OneRefinementPerFailure ==
    ValidatedStep =>
        /\ log[1].path = flow.components[flow.k - 1].path
        /\ Cardinality(EventsOf("refine")) = (IF log[1].success THEN 0 ELSE 1)
        /\ Cardinality(RefineRequests) = (IF log[1].success THEN 0 ELSE 1)

\* C6: generate_multi_component_project never lets an exception through: it
\* ends only by returning its list.
MultiNeverAborts ==
    /\ pc # "raised"
    /\ ret.op = "generate_multi_component_project" => ~ret.raised

\* C7: when generate_multi_component_project returns, every component the
\* call recorded in the project context has been statically validated.
EveryArtifactValidated ==
    (pc = "done" /\ flow.kind = "multi") =>
        \A n \in 1..Len(context.components) :
            context.components[n].path \in flow.validated

\* C8: a turn of the validation loop of generate_multi_component_project runs
\* the runtime validation once, on that component, after every event of its
\* static validation and refinement, when its path ends in .py and its type
\* is no test type, and not at all otherwise; the call returns only after
\* every listed component had its turn.
RuntimeOnlyForPythonNonTests ==
    /\ (ValidatedStep /\ flow.kind = "multi") =>
          LET component == flow.components[flow.k - 1]
              due == /\ component.path.ext = "py"
                     /\ component.type # "unit_test"
                     /\ component.type # "integration_test"
          IN /\ Cardinality(EventsOf("runtime")) = (IF due THEN 1 ELSE 0)
             /\ \A n \in EventsOf("runtime") :
                   /\ log[n].path = component.path
                   /\ \A m \in 1..Len(log) :
                         (\/ log[m].ev \in {"validate", "refine"}
                          \/ log[m].ev = "return" /\ log[m].op = "refine_component")
                         => m < n
    /\ (pc = "done" /\ flow.kind = "multi") => flow.k = Len(flow.components) + 1
    /\ flow.kind = "genie" => EventsOf("runtime") = {}

\* the call returned after turns that ran the runtime validation behind a
\* refinement, and turns on a test file that did not run it
RuntimeAfterRefinement ==
    /\ flow.kind = "multi"
    /\ ValidatedStep
    /\ EventsOf("refine") # {}
    /\ EventsOf("runtime") # {}
    /\ \E n \in 1..Len(flow.components) : flow.components[n].type = "unit_test"

\* the requirements a context holds are all pending
AllPending(data) ==
    \A n \in 1..Len(data.requirements) : data.requirements[n].status = "pending"

\* C20: through the generation, validation, refinement, runtime, improvement
\* and debug steps of the orchestrator, none of which is a call of
\* update_requirement_status, every requirement is pending, in memory and
\* in the saved document.
RequirementsStayPending ==
    /\ AllPending(context)
    /\ AllPending(context_doc.data)

\* a flow generated a component, refined it and debugged it, and the
\* requirements it added are in the document
FlowsLeftRequirements ==
    /\ pc = "debugged"
    /\ ret.value = TRUE
    /\ Len(context_doc.data.requirements) >= 2
    /\ \E n \in 1..Len(context.history) : context.history[n].action = "refine"
    /\ \E n \in 1..Len(context.history) : context.history[n].action = "debug"

-----------------------------------------------------------------------------
(* Direct calls of the code generator                                      *)

MaxCalls == 2

\* answers to a direct request for code: nothing, blank, an empty fenced
\* block, code, fenced code
CodeAnswers ==
    {<<>>, <<NL>>, <<BT, BT, BT, NL, BT, BT, BT>>, <<"g">>,
     <<BT, BT, BT, "g", NL, "x", BT, BT, BT>>}

ComponentPaths == {NoPath, Path(0, <<>>, "a", "py"), Path(0, <<"a.py">>, "b", "py")}

\* CodeGenerator.generate_component, called directly
GenerateComponentCall ==
    /\ pc = "idle"
    /\ calls < MaxCalls
    /\ \E ctype \in {"backend", "frontend"}, path \in ComponentPaths,
          response \in CodeAnswers :
          LET generated == GenerateComponent(env, World, ctype, "a", "d", path, response)
          IN /\ Becomes(generated.w)
             /\ ret' = [op |-> "generate_component", raised |-> generated.raised,
                        value |-> generated.value,
                        args |-> [path |-> path, response |-> response]]
    /\ calls' = calls + 1
    /\ UNCHANGED <<pc, flow, env, other, error_collector, error_data, subprocess>>

\* CodeGenerator.generate_from_description, called directly
GenerateFromDescriptionCall ==
    /\ pc = "idle"
    /\ calls < MaxCalls
    /\ \E parsed_response \in Decompositions :
       \E responses \in [1..Len(Asked_for(parsed_response)) -> Answers] :
          LET generated == GenerateFromDescription(env, World, parsed_response, responses)
          IN /\ Becomes(generated.w)
             /\ ret' = [op |-> "generate_from_description", raised |-> generated.raised,
                        value |-> generated.value,
                        args |-> [parsed_response |-> parsed_response,
                                  responses |-> responses]]
    /\ calls' = calls + 1
    /\ UNCHANGED <<pc, flow, env, other, error_collector, error_data, subprocess>>

NextGen == GenerateComponentCall \/ GenerateFromDescriptionCall

SpecGen == Init /\ [][NextGen]_vars

\* the step is a call of op
Called(op) == calls' = calls + 1 /\ ret'.op = op

\* the step left the disk's files and the project context as they were
NothingGenerated ==
    /\ files' = files
    /\ context'.components = context.components
    /\ context'.history = context.history
    /\ context_doc'.data.components = context_doc.data.components
    /\ context_doc'.data.history = context_doc.data.history

\* C4: a call of generate_component that the client answers with nothing, or
\* with text that holds no code, returns (False, ""), writes no file and
\* records neither a component nor a history entry.
EmptyAnswerGeneratesNothing ==
    [][(/\ Called("generate_component")
        /\ Strip(ret'.args.response) = <<>> \/ ret'.args.response = <<BT, BT, BT, NL, BT, BT, BT>>)
       => (/\ ret'.value = [success |-> FALSE, path |-> NoPath]
           /\ ~ret'.raised
           /\ NothingGenerated)]_vars

\* generate_component was answered with an empty fenced block on a project
\* that holds generated files
EmptyAnswerGiven ==
    /\ ret.op = "generate_component"
    /\ ret.args.response = <<BT, BT, BT, NL, BT, BT, BT>>
    /\ ~ret.value.success
    /\ files # <<>>
    /\ context.components # <<>>

\* the text holds an opening bracket with a closing one behind it
HoldsBrackets(t) == \E i \in 1..Len(t), j \in 1..Len(t) : i < j /\ t[i] = "[" /\ t[j] = "]"

\* C5: a call of generate_from_description whose decomposition answer holds
\* no JSON array returns the empty list, adds no requirement, and generates
\* and records no component.
NoArrayGeneratesNothing ==
    [][(/\ Called("generate_from_description")
        /\ ~HoldsBrackets(ret'.args.parsed_response))
       => (/\ ret'.value = <<>>
           /\ ~ret'.raised
           /\ context'.requirements = context.requirements
           /\ context_doc'.data.requirements = context_doc.data.requirements
           /\ NothingGenerated)]_vars

\* generate_from_description was answered with text that holds no array, on
\* a project that holds generated components
NoArrayGiven ==
    /\ ret.op = "generate_from_description"
    /\ ret.args.parsed_response \in {<<"t">>, <<"t", "[", "{", "c1", "}">>}
    /\ ret.value = <<>>
    /\ context.components # <<>>

-----------------------------------------------------------------------------
(* Direct calls of the feedback loop                                       *)

MaxFeedbackCalls == 3

\* x.py is a file of the project, y.py is not
FeedbackPaths == {Path(0, <<>>, "x", "py"), Path(0, <<>>, "y", "py")}

FeedbackTypes == {"error", "suggestion"}

FeedbackMessages == {"boom", "slow"}

\* FeedbackLoop.__init__ on a project that holds the component x.py
InitFeedback ==
    /\ env \in FlowEnvironments
    /\ files = (Join(env, Path(0, <<>>, "x", "py")) :> <<"l">>)
    /\ dirs = {ProjectDir, FeedbackDir}
    /\ context = DefaultContext
    /\ context_doc = [present |-> FALSE, data |-> DefaultContext]
    /\ feedback_entries = <<>>
    /\ feedback_doc = [present |-> FALSE, data |-> <<>>]
    /\ error_instances = <<>>
    /\ log = <<>>
    /\ pc = "idle"
    /\ flow = NoFlow
    /\ ret = NoReturn
    /\ calls = 0
    /\ other = NoOther
    /\ error_collector = NewErrorCollector
    /\ error_data = NoErrorData
    /\ subprocess = NoSubprocess

\* FeedbackLoop.add_feedback, called directly
AddFeedbackCall ==
    /\ pc = "idle"
    /\ calls < MaxFeedbackCalls
    /\ \E component_path \in FeedbackPaths, feedback_type \in FeedbackTypes,
          feedback_message \in FeedbackMessages :
          LET added == AddFeedback(World, component_path, feedback_type, feedback_message)
          IN /\ Becomes(added.w)
             /\ ret' = [op |-> "add_feedback", raised |-> FALSE, value |-> added.value,
                        args |-> [component_path |-> component_path,
                                  feedback_type |-> feedback_type,
                                  feedback_message |-> feedback_message]]
    /\ calls' = calls + 1
    /\ UNCHANGED <<pc, flow, env, other, error_collector, error_data, subprocess>>

\* the ids a caller can hold: those add_feedback can have returned
EntryIds ==
    {EntryId(p, t, m) : p \in FeedbackPaths, t \in FeedbackTypes, m \in FeedbackMessages}

\* FeedbackLoop.mark_resolved, called directly
MarkResolvedCall ==
    /\ pc = "idle"
    /\ calls < MaxFeedbackCalls
    /\ \E entry_id \in EntryIds, resolution \in {"fixed", "None"} :
          LET marked == MarkResolved(World, entry_id, resolution)
          IN /\ Becomes(marked.w)
             /\ ret' = [op |-> "mark_resolved", raised |-> FALSE, value |-> marked.value,
                        args |-> [entry_id |-> entry_id, resolution |-> resolution]]
    /\ calls' = calls + 1
    /\ UNCHANGED <<pc, flow, env, other, error_collector, error_data, subprocess>>

\* FeedbackLoop.apply_improvement, called directly
ApplyImprovementCall ==
    /\ pc = "idle"
    /\ calls < MaxFeedbackCalls
    /\ \E component_path \in FeedbackPaths, improved_code \in TextAnswers :
          LET applied == ApplyImprovement(env, World, component_path, improved_code)
          IN /\ Becomes(applied.w)
             /\ ret' = [op |-> "apply_improvement", raised |-> FALSE,
                        value |-> applied.value,
                        args |-> [component_path |-> component_path,
                                  improved_code |-> improved_code]]
    /\ calls' = calls + 1
    /\ UNCHANGED <<pc, flow, env, other, error_collector, error_data, subprocess>>

\* FeedbackLoop.improve_component, called directly
ImproveComponentCall ==
    /\ pc = "idle"
    /\ calls < MaxFeedbackCalls
    /\ \E component_path \in FeedbackPaths,
          response \in {<<>>, <<"g">>, <<BT, BT, BT, NL, "g", NL, BT, BT, BT>>} :
          LET improved == ImproveComponent(env, World, component_path, response)
          IN /\ Becomes(improved.w)
             /\ ret' = [op |-> "improve_component", raised |-> FALSE,
                        value |-> improved.value,
                        args |-> [component_path |-> component_path,
                                  response |-> response]]
    /\ calls' = calls + 1
    /\ UNCHANGED <<pc, flow, env, other, error_collector, error_data, subprocess>>

NextFeedback ==
    \/ AddFeedbackCall
    \/ MarkResolvedCall
    \/ ApplyImprovementCall
    \/ ImproveComponentCall

SpecFeedback == InitFeedback /\ [][NextFeedback]_vars

\* the ids of the entries of a store that hold the triple
Holding(store, triple) ==
    {id \in DOMAIN store :
        /\ store[id].component_path = triple.component_path
        /\ store[id].feedback_type = triple.feedback_type
        /\ store[id].feedback_message = triple.feedback_message}

\* C9: add_feedback leaves exactly one entry for its triple, under the id it
\* returns, in memory and in the saved document; when the triple was stored
\* already it returns the id that entry has and stores no further entry.
AddFeedbackIdempotent ==
    [][Called("add_feedback") =>
          (/\ Holding(feedback_entries', ret'.args) = {ret'.value}
           /\ feedback_doc'.present
           /\ Holding(feedback_doc'.data, ret'.args) = {ret'.value}
           /\ Holding(feedback_entries, ret'.args) # {} =>
                 /\ Holding(feedback_entries, ret'.args) = {ret'.value}
                 /\ DOMAIN feedback_entries' = DOMAIN feedback_entries
                 /\ DOMAIN feedback_doc'.data = DOMAIN feedback_doc.data)]_vars

\* add_feedback was called with a triple that was stored already
AddedTwice ==
    /\ ret.op = "add_feedback"
    /\ \E n \in 1..Len(log) :
          /\ log[n].ev = "feedback"
          /\ log[n].entry_id = ret.value
          /\ log[n].replaced
    /\ Cardinality(DOMAIN feedback_entries) = 1

\* C10: an entry is created unresolved, and a resolved entry stays in the
\* store, resolved, through every call of add_feedback, mark_resolved,
\* apply_improvement and improve_component; its resolution changes only
\* where the call marks it resolved again.
ResolvedStaysResolved ==
    [][/\ \A id \in DOMAIN feedback_entries' \ DOMAIN feedback_entries :
              ~feedback_entries'[id].resolved
       /\ \A id \in DOMAIN feedback_entries :
              feedback_entries[id].resolved =>
                 /\ id \in DOMAIN feedback_entries'
                 /\ feedback_entries'[id].resolved
                 /\ \/ feedback_entries'[id].resolution = feedback_entries[id].resolution
                    \/ ret'.op \in {"mark_resolved", "apply_improvement",
                                     "improve_component"}]_vars

\* the positions of a log where the file was written
Written(l, file) == {n \in 1..Len(l) : l[n].ev = "write" /\ l[n].file = file}

\* the ids of the entries a store holds for the component
StoredFor(store, component_path) ==
    {id \in DOMAIN store : store[id].component_path = component_path}

ImproveFailsWithoutAnswer ==
    [][(/\ Called("improve_component")
        /\ \/ StoredFor(feedback_entries, ret'.args.component_path) = {}
           \/ ret'.args.response = <<>>)
       => (ret'.value = FALSE /\ files' = files)]_vars

\* the requests for an improvement the step just taken made
ImprovementRequests(l) ==
    {n \in 1..Len(l) : l[n].ev = "llm" /\ l[n].kind = "improve"}

\* C13: improve_component on a readable component the store holds feedback
\* for makes one request, whose prompt embeds the line of every entry stored
\* for the path, resolved or not, and goes on to apply the answer.
ImprovementEmbedsAllFeedback ==
    [][(/\ Called("improve_component")
        /\ StoredFor(feedback_entries, ret'.args.component_path) # {}
        /\ Join(env, ret'.args.component_path) \in DOMAIN files)
       => LET stored == {feedback_entries[id] :
                            id \in StoredFor(feedback_entries, ret'.args.component_path)}
          IN /\ Cardinality(ImprovementRequests(log')) = 1
             /\ \A n \in ImprovementRequests(log') :
                   /\ log'[n].feedback = stored
                   /\ log'[n].lines = {FeedbackLine(entry) : entry \in stored}
             /\ ret'.value = TRUE]_vars

\* improve_component went through on a component whose entries an earlier
\* improvement had all resolved
ImprovedAfterResolved ==
    /\ ret.op = "improve_component"
    /\ ret.value = TRUE
    /\ \E n \in ImprovementRequests(log) :
          /\ log[n].feedback # {}
          /\ \A entry \in log[n].feedback :
                /\ entry.resolved
                /\ entry.resolution = "Applied automatic improvement"

\* the ids of the error instances that hold the message for the file
InstancesOf(instances, error_message, file_path) ==
    {id \in DOMAIN instances :
        /\ instances[id].error_message = error_message
        /\ instances[id].file_path = file_path}

\* C14: after add_feedback with the type "error" the collector of the
\* feedback loop holds an instance with the message and the component path,
\* beside the instances it held; add_feedback with another type leaves the
\* collector's instances as they were.
ErrorsForwarded ==
    [][Called("add_feedback") =>
          IF ret'.args.feedback_type = "error"
          THEN /\ InstancesOf(error_instances', ret'.args.feedback_message,
                              ret'.args.component_path) # {}
               /\ \A id \in DOMAIN error_instances :
                     /\ id \in DOMAIN error_instances'
                     /\ error_instances'[id] = error_instances[id]
               /\ Cardinality(DOMAIN error_instances')
                     <= Cardinality(DOMAIN error_instances) + 1
          ELSE error_instances' = error_instances]_vars

\* the store holds an entry of another type, and the only instance the
\* collector holds is that of the error just added
ErrorForwarded ==
    /\ ret.op = "add_feedback"
    /\ ret.args.feedback_type = "error"
    /\ \E id \in DOMAIN feedback_entries : feedback_entries[id].feedback_type # "error"
    /\ Cardinality(DOMAIN error_instances) = 1
    /\ InstancesOf(error_instances, ret.args.feedback_message,
                   ret.args.component_path) # {}

-----------------------------------------------------------------------------
(* Direct calls of the two stores                                          *)

MaxStoreCalls == 3

\* ProjectContext(project_path) on a root that is not made yet, or on a
\* project that holds x.py, with no FeedbackLoop constructed yet ("context");
\* or both stores constructed on the project that holds x.py ("idle")
InitStores ==
    /\ env \in FlowEnvironments
    /\ \E made \in BOOLEAN, constructed \in {"context", "idle"} :
          /\ constructed = "idle" => made
          /\ files = IF made THEN (Join(env, Path(0, <<>>, "x", "py")) :> <<"l">>)
                     ELSE <<>>
          /\ dirs = IF ~made THEN {}
                    ELSE IF constructed = "idle" THEN {ProjectDir, FeedbackDir}
                    ELSE {ProjectDir}
          /\ pc = constructed
    /\ context = DefaultContext
    /\ context_doc = [present |-> FALSE, data |-> DefaultContext]
    /\ feedback_entries = <<>>
    /\ feedback_doc = [present |-> FALSE, data |-> <<>>]
    /\ error_instances = <<>>
    /\ log = <<>>
    /\ flow = NoFlow
    /\ ret = NoReturn
    /\ calls = 0
    /\ other = NoOther
    /\ error_collector = NewErrorCollector
    /\ error_data = NoErrorData
    /\ subprocess = NoSubprocess

\* the call made the world w and handed back value
StoreCall(op, w, value, args) ==
    /\ calls < MaxStoreCalls
    /\ Becomes(w)
    /\ ret' = [op |-> op, raised |-> FALSE, value |-> value, args |-> args]
    /\ calls' = calls + 1
    /\ UNCHANGED <<flow, env, other, error_collector, error_data, subprocess>>

\* a new ProjectContext on the same root takes the place of the one in use
NewProjectContextCall ==
    /\ \E readable \in BOOLEAN :
          StoreCall("ProjectContext", NewProjectContext(World, readable), <<>>,
                    [readable |-> readable])
    /\ pc' = pc

\* a new FeedbackLoop on the same root takes the place of the one in use
NewFeedbackLoopCall ==
    /\ StoreCall("FeedbackLoop", NewFeedbackLoop(World), <<>>, <<>>)
    /\ pc' = "idle"

\* ProjectContext.add_component, called directly
AddComponentCall ==
    /\ \E name \in {"a", "b"} :
          StoreCall("add_component",
                    AddComponent(World, "backend", name, Path(0, <<>>, name, "py"), "d"),
                    <<>>, [name |-> name])
    /\ pc' = pc

\* ProjectContext.add_requirement, called directly
AddRequirementCall ==
    /\ \E requirement \in {"r", "s"} :
          StoreCall("add_requirement", AddRequirement(World, requirement, "feature"),
                    <<>>, [requirement |-> requirement])
    /\ pc' = pc

\* ProjectContext.add_history_entry, called directly
AddHistoryEntryCall ==
    /\ StoreCall("add_history_entry",
                 AddHistoryEntry(World, "generate", Path(0, <<>>, "a", "py")),
                 <<>>, <<>>)
    /\ pc' = pc

\* ProjectContext.update_requirement_status, called directly
UpdateRequirementStatusCall ==
    /\ \E index \in -1..1, status \in {"completed", "failed", "done"} :
          StoreCall("update_requirement_status",
                    UpdateRequirementStatus(World, index, status), <<>>,
                    [index |-> index, status |-> status])
    /\ pc' = pc

NextStores ==
    \/ NewProjectContextCall
    \/ NewFeedbackLoopCall
    \/ AddComponentCall
    \/ AddRequirementCall
    \/ AddHistoryEntryCall
    \/ UpdateRequirementStatusCall
    \/ AddFeedbackCall
    \/ MarkResolvedCall
    \/ ApplyImprovementCall

SpecStores == InitStores /\ [][NextStores]_vars

\* C15: a ProjectContext constructed over a root whose document holds
\* records and can be read holds those records, and a FeedbackLoop
\* constructed over a root whose feedback document holds entries holds those
\* entries, with their resolved status, before any mutation.
LoadedOnConstruction ==
    [][/\ (/\ Called("ProjectContext")
           /\ context_doc.present
           /\ ret'.args.readable) => context' = context_doc.data
       /\ (/\ Called("FeedbackLoop")
           /\ feedback_doc.present) => feedback_entries' = feedback_doc.data]_vars

\* C16: no call of add_feedback, mark_resolved or apply_improvement and no
\* construction of a FeedbackLoop on the root removes an entry id from the
\* saved feedback document.
LedgerAccumulates ==
    [][feedback_doc.present =>
          /\ feedback_doc'.present
          /\ DOMAIN feedback_doc.data \subseteq DOMAIN feedback_doc'.data]_vars

\* a is b with elements left out
RECURSIVE IsSubSeq(_, _)
IsSubSeq(a, b) ==
    IF a = <<>> THEN TRUE
    ELSE IF b = <<>> THEN FALSE
    ELSE IF Head(a) = Head(b) THEN IsSubSeq(Tail(a), Tail(b))
    ELSE IsSubSeq(a, Tail(b))

\* C17: through every mutator and every construction of a ProjectContext on
\* the root, one whose load fails included, the component records of the
\* saved document stay in it, unchanged and in their order.
ComponentsOnlyAppended ==
    [][context_doc.present =>
          /\ context_doc'.present
          /\ IsSubSeq(context_doc.data.components,
                      context_doc'.data.components)]_vars

\* C18: when add_component, add_requirement, add_history_entry or an
\* in-range update_requirement_status returns, the saved context document
\* is the context in memory; when add_feedback returns, or mark_resolved
\* returns True, the saved feedback document is the entries in memory.
MutatorsPersist ==
    [][/\ (\/ Called("add_component")
           \/ Called("add_requirement")
           \/ Called("add_history_entry")
           \/ /\ Called("update_requirement_status")
              /\ 0 <= ret'.args.index
              /\ ret'.args.index < Len(context.requirements))
          => (context_doc'.present /\ context_doc'.data = context')
       /\ (\/ Called("add_feedback")
           \/ Called("mark_resolved") /\ ret'.value = TRUE)
          => (feedback_doc'.present /\ feedback_doc'.data = feedback_entries')]_vars

-----------------------------------------------------------------------------
(* Two writers on one project root                                         *)

MaxWriterCalls == 3

Writers == {"first", "second"}

\* ProjectGenie.__init__ twice on the project that holds x.py: both
\* ProjectContexts loaded the same document, both FeedbackLoops start empty
InitWriters ==
    /\ env \in FlowEnvironments
    /\ files = (Join(env, Path(0, <<>>, "x", "py")) :> <<"l">>)
    /\ dirs = {ProjectDir, FeedbackDir}
    /\ context = DefaultContext
    /\ context_doc = [present |-> FALSE, data |-> DefaultContext]
    /\ feedback_entries = <<>>
    /\ feedback_doc = [present |-> FALSE, data |-> <<>>]
    /\ error_instances = <<>>
    /\ log = <<>>
    /\ pc = "idle"
    /\ flow = NoFlow
    /\ ret = NoReturn
    /\ calls = 0
    /\ other = NoOther
    /\ error_collector = NewErrorCollector
    /\ error_data = NoErrorData
    /\ subprocess = NoSubprocess

\* the project as the writer's instances see it: the disk is shared, the
\* memory is the writer's own
WorldOf(who) ==
    IF who = "first" THEN World
    ELSE [World EXCEPT !.context = other.context,
                       !.feedback_entries = other.feedback_entries]

\* the writer's call made the world w
BecomesThrough(who, w) ==
    IF who = "first" THEN Becomes(w) /\ UNCHANGED <<other, error_collector, error_data, subprocess>>
    ELSE /\ files' = w.files
         /\ dirs' = w.dirs
         /\ context_doc' = w.context_doc
         /\ feedback_doc' = w.feedback_doc
         /\ log' = w.log
         /\ other' = [context |-> w.context, feedback_entries |-> w.feedback_entries]
         /\ UNCHANGED <<context, feedback_entries, error_instances,
                        error_collector, error_data, subprocess>>

WriterCall(who, op, w, value, args) ==
    /\ calls < MaxWriterCalls
    /\ BecomesThrough(who, w)
    /\ ret' = [op |-> op, raised |-> FALSE, value |-> value, who |-> who, args |-> args]
    /\ calls' = calls + 1
    /\ UNCHANGED <<pc, flow, env>>

\* ProjectContext.add_component through one of the two instances
WriterAddComponent ==
    \E who \in Writers, name \in {"a", "b"} :
        WriterCall(who, "add_component",
                   AddComponent(WorldOf(who), "backend", name,
                                Path(0, <<>>, name, "py"), "d"),
                   <<>>, [name |-> name])

\* FeedbackLoop.add_feedback through one of the two instances
WriterAddFeedback ==
    \E who \in Writers, feedback_type \in FeedbackTypes,
       feedback_message \in FeedbackMessages :
        LET added == AddFeedback(WorldOf(who), Path(0, <<>>, "x", "py"),
                                 feedback_type, feedback_message)
        IN WriterCall(who, "add_feedback", added.w, added.value,
                      [feedback_type |-> feedback_type,
                       feedback_message |-> feedback_message])

\* FeedbackLoop.mark_resolved through one of the two instances
WriterMarkResolved ==
    \E who \in Writers, entry_id \in EntryIds :
        LET marked == MarkResolved(WorldOf(who), entry_id, "fixed")
        IN WriterCall(who, "mark_resolved", marked.w, marked.value,
                      [entry_id |-> entry_id])

NextWriters == WriterAddComponent \/ WriterAddFeedback \/ WriterMarkResolved

SpecWriters == InitWriters /\ [][NextWriters]_vars

\* what the writer holds in memory
MemoryOf(who, first_context, first_entries, second) ==
    IF who = "first"
    THEN [context |-> first_context, feedback_entries |-> first_entries]
    ELSE second

\* the elements of a sequence
Range(q) == {q[n] : n \in 1..Len(q)}

\* C19: a mutation through one of two instances on the same root writes
\* the whole document from that instance's memory, which is what it held
\* before with the one change made: nothing of the document is read back, so
\* a record the other instance had persisted is in the document afterwards
\* only if the writer held it too.
WholeDocumentWritten ==
    [][/\ Called("add_component") =>
             LET before == MemoryOf(ret'.who, context, feedback_entries, other)
                 after == MemoryOf(ret'.who, context', feedback_entries', other')
             IN /\ Len(after.context.components) = Len(before.context.components) + 1
                /\ IsPrefix(before.context.components, after.context.components)
                /\ context_doc'.present
                /\ context_doc'.data = after.context
       /\ (\/ Called("add_feedback")
           \/ Called("mark_resolved") /\ ret'.value = TRUE) =>
             LET before == MemoryOf(ret'.who, context, feedback_entries, other)
                 after == MemoryOf(ret'.who, context', feedback_entries', other')
             IN /\ IF ret'.op = "mark_resolved"
                   THEN DOMAIN after.feedback_entries = DOMAIN before.feedback_entries
                   ELSE DOMAIN after.feedback_entries =
                           DOMAIN before.feedback_entries \cup {ret'.value}
                /\ feedback_doc'.present
                /\ feedback_doc'.data = after.feedback_entries]_vars

\* a lost update: the component one instance added and persisted is missing
\* from the document after the other instance added its own
LostUpdate ==
    /\ ret.op = "add_component"
    /\ context_doc.present
    /\ LET writer == MemoryOf(ret.who, context, feedback_entries, other)
           reader == MemoryOf(CHOOSE who \in Writers : who # ret.who,
                              context, feedback_entries, other)
       IN /\ context_doc.data = writer.context
          /\ \E c \in Range(reader.context.components) :
                c \notin Range(context_doc.data.components)

-----------------------------------------------------------------------------
(* Properties of the values the stores hold                                *)

\* C21: every requirement a ProjectContext holds, in memory and in the
\* saved document, has the status pending, completed or failed.
StatusKnown ==
    \A data \in {context, context_doc.data} :
        \A n \in 1..Len(data.requirements) :
            data.requirements[n].status \in {"pending", "completed", "failed"}

\* C22: every entry the feedback store holds, in memory and in the saved
\* document, has the type error, warning, suggestion or issue.
FeedbackTypeKnown ==
    \A store \in {feedback_entries, feedback_doc.data} :
        \A id \in DOMAIN store :
            store[id].feedback_type \in {"error", "warning", "suggestion", "issue"}

-----------------------------------------------------------------------------
(* Direct calls of an ErrorCollector                                       *)

MaxCollectorCalls == 5

Regexes == {<<"a">>, <<".">>, <<"(">>}

ErrorMessages == {<<"a">>, <<"b">>, <<"a", "b">>}

\* where an error is reported: file_path and line_number
Locations == {<<None, None>>, <<Some(<<"x">>), None>>, <<Some(<<"x">>), Some(1)>>}

Limits == 0..2

\* a newly constructed collector, no file of error data written
InitCollector ==
    /\ Init
    /\ env.relative_root = FALSE

\* the call left the collector c and handed back value; again tells that
\* the call before it was the same call with the same arguments
CollectorCall(op, c, raised, value, args) ==
    /\ calls < MaxCollectorCalls
    /\ error_collector' = c
    /\ ret' = [op |-> op, raised |-> raised, value |-> value, args |-> args,
               again |-> (ret.op = op /\ ret.args = args)]
    /\ calls' = calls + 1
    /\ UNCHANGED <<files, dirs, context, context_doc, feedback_entries, feedback_doc,
                   error_instances, log, pc, flow, env, other, subprocess>>

\* ErrorCollector.add_error_pattern, called directly
AddErrorPatternCall ==
    /\ \E pattern \in Regexes, description \in {"mine"} :
          LET r == AddErrorPattern(error_collector, pattern, description, <<>>, <<>>)
          IN CollectorCall("add_error_pattern", r.c, r.raised, r.value,
                           [pattern |-> pattern, description |-> description])
    /\ error_data' = error_data

\* ErrorCollector.add_error, called directly
AddErrorAtCall ==
    /\ \E error_message \in ErrorMessages, location \in Locations :
          LET r == AddErrorAt(error_collector, error_message,
                              location[1], location[2], None)
          IN CollectorCall("add_error", r.c, r.raised, r.value,
                           [error_message |-> error_message,
                            file_path |-> location[1], line_number |-> location[2],
                            column_number |-> None])
    /\ error_data' = error_data

\* ErrorCollector.get_most_common_patterns, called directly
GetMostCommonPatternsCall ==
    /\ \E limit \in Limits :
          CollectorCall("get_most_common_patterns", error_collector, FALSE,
                        GetMostCommonPatterns(error_collector, limit),
                        [limit |-> limit])
    /\ error_data' = error_data

\* ErrorCollector.get_errors_by_pattern, called directly with an id that
\* add_error_pattern can have handed out
GetErrorsByPatternCall ==
    /\ \E pattern \in {regex \in Regexes : Compiles(regex)} :
          CollectorCall("get_errors_by_pattern", error_collector, FALSE,
                        GetErrorsByPattern(error_collector, Md5(pattern)),
                        [pattern_id |-> Md5(pattern)])
    /\ error_data' = error_data

\* ErrorCollector.save_to_file, called directly
SaveToFileCall ==
    /\ CollectorCall("save_to_file", error_collector, FALSE, TRUE, <<>>)
    /\ error_data' = SaveToFile(error_collector)

\* ErrorCollector.load_from_file, called directly
LoadFromFileCall ==
    /\ LET r == LoadFromFile(error_collector, error_data)
       IN CollectorCall("load_from_file", r.c, r.raised, r.value, <<>>)
    /\ error_data' = error_data

NextCollector ==
    \/ AddErrorPatternCall
    \/ AddErrorAtCall
    \/ GetMostCommonPatternsCall
    \/ GetErrorsByPatternCall
    \/ SaveToFileCall
    \/ LoadFromFileCall

SpecCollector == InitCollector /\ [][NextCollector]_vars

\* the patterns of the collector that search the message, as a set of ids
Searching(c, error_message) ==
    {c.error_patterns[n].key : n \in {m \in 1..Len(c.error_patterns) :
        \E i \in 1..(Len(error_message) + 1) :
            LET pattern == c.error_patterns[m].value.pattern
            IN /\ i + Len(pattern) - 1 <= Len(error_message)
               /\ \A k \in 1..Len(pattern) :
                     pattern[k] \in {".", error_message[i + k - 1]}}}

\* C23: the instance add_error stores names a registered pattern among its
\* matched patterns exactly when the pattern's regular expression is found
\* somewhere in the message, whether or not it spans the whole message and
\* whether or not an earlier pattern matched too.
AllSearchingPatternsRecorded ==
    [][Called("add_error") =>
          /\ Has(error_collector'.error_instances, ret'.value)
          /\ LET instance == Get(error_collector'.error_instances, ret'.value)
             IN /\ instance.error_message = ret'.args.error_message
                /\ {instance.matched_patterns[n] :
                        n \in 1..Len(instance.matched_patterns)}
                      = Searching(error_collector, ret'.args.error_message)
                /\ Len(instance.matched_patterns)
                      = Cardinality(Searching(error_collector, ret'.args.error_message))]_vars

\* an error was recorded whose message two patterns search, one of them
\* without spanning the message
TwoPatternsRecorded ==
    /\ ret.op = "add_error"
    /\ ret.args.error_message = <<"a", "b">>
    /\ LET instance == Get(error_collector.error_instances, ret.value)
       IN /\ Len(instance.matched_patterns) >= 2
          /\ instance.matched_patterns[1] = Md5(<<"a">>)
          /\ Md5(<<"b">>) \in {instance.matched_patterns[n] :
                                  n \in 1..Len(instance.matched_patterns)}

\* the items of a dict whose value has the fields of the given record
ItemsWith(dict, fields) ==
    {n \in 1..Len(dict) :
        \A f \in DOMAIN fields : dict[n].value[f] = fields[f]}

\* C24: add_error_pattern with a regular expression that is registered
\* returns the id it is registered under and leaves the patterns as many as
\* they were, one of them with that expression; add_error with a message,
\* file, line and column that are recorded returns the id they are recorded
\* under and leaves the instances as many as they were, one of them with
\* that message and place. A call repeated at once returns what it returned.
IdempotentByContent ==
    [][/\ (Called("add_error_pattern") /\ ~ret'.raised) =>
            LET fields == [pattern |-> ret'.args.pattern]
                held == ItemsWith(error_collector.error_patterns, fields)
                holds == ItemsWith(error_collector'.error_patterns, fields)
            IN /\ Cardinality(holds) = 1
               /\ \A n \in holds : error_collector'.error_patterns[n].key = ret'.value
               /\ held # {} =>
                     /\ Len(error_collector'.error_patterns)
                           = Len(error_collector.error_patterns)
                     /\ \A n \in held :
                           error_collector.error_patterns[n].key = ret'.value
               /\ ret'.again => ret'.value = ret.value
       /\ Called("add_error") =>
            LET fields == [error_message |-> ret'.args.error_message,
                           file_path |-> ret'.args.file_path,
                           line_number |-> ret'.args.line_number,
                           column_number |-> ret'.args.column_number]
                held == ItemsWith(error_collector.error_instances, fields)
                holds == ItemsWith(error_collector'.error_instances, fields)
            IN /\ Cardinality(holds) = 1
               /\ \A n \in holds : error_collector'.error_instances[n].key = ret'.value
               /\ held # {} =>
                     /\ Len(error_collector'.error_instances)
                           = Len(error_collector.error_instances)
                     /\ \A n \in held :
                           error_collector.error_instances[n].key = ret'.value
               /\ ret'.again => ret'.value = ret.value]_vars

\* the same error was reported twice in a row, after a pattern was
\* registered twice, and the collector holds one instance and one pattern more
\* than the library
ReportedTwice ==
    /\ ret.op = "add_error"
    /\ ret.again
    /\ calls = 4
    /\ Len(error_collector.error_instances) = 1
    /\ Len(error_collector.error_patterns) = Len(BuiltInPatterns) + 1

\* C25: a pattern the collector holds under an id is, after any operation,
\* still the pattern it held under that id: the same regular expression,
\* description, examples and fix suggestions.
PatternsImmutable ==
    [][\A n \in 1..Len(error_collector.error_patterns) :
          LET item == error_collector.error_patterns[n]
          IN Has(error_collector'.error_patterns, item.key) =>
                Get(error_collector'.error_patterns, item.key) = item.value]_vars

\* the ids of a sequence of ids, as a set
Ids(ids) == {ids[k] : k \in 1..Len(ids)}

\* the number of stored instances whose message the pattern registered
\* under the id searches
MatchingErrors(c, id) ==
    Cardinality({n \in 1..Len(c.error_instances) :
        id \in Searching(c, c.error_instances[n].value.error_message)})

\* the number of stored instances that name the id among their matched
\* patterns
InstanceCount(c, id) ==
    Cardinality({n \in 1..Len(c.error_instances) :
        id \in Ids(c.error_instances[n].value.matched_patterns)})

\* the matched patterns of the stored instances, one instance after the other
Met(c) ==
    LET Walked[n \in 0..Len(c.error_instances)] ==
            IF n = 0 THEN <<>>
            ELSE Walked[n - 1] \o c.error_instances[n].value.matched_patterns
    IN Walked[Len(c.error_instances)]

\* where the id is first met on that walk
FirstMet(c, id) ==
    CHOOSE k \in 1..Len(Met(c)) :
        Met(c)[k] = id /\ \A j \in 1..(k - 1) : Met(c)[j] # id

\* the pair of id and count comes before the other in the ranking
Outranks(c, id, count, other_id, other_count) ==
    \/ count > other_count
    \/ count = other_count /\ FirstMet(c, id) < FirstMet(c, other_id)

\* three instances matched to the built-in pattern a alone and one matched
\* to the built-in pattern b alone are all the collector holds
ThreeAndOne(c) ==
    /\ Len(c.error_instances) = 4
    /\ InstanceCount(c, Md5(<<"a">>)) = 3
    /\ InstanceCount(c, Md5(<<"b">>)) = 1
    /\ Ids(Met(c)) = {Md5(<<"a">>), Md5(<<"b">>)}

-----------------------------------------------------------------------------
(* Direct calls of the validators                                          *)

MaxValidateCalls == 2

\* the files of the project the validators are called on
ValidateTexts ==
    (Path(0, <<>>, "a", "py") :> <<"g">>)
    @@ (Path(0, <<>>, "b", "py") :> <<"g", NL, "x">>)
    @@ (Path(0, <<>>, "c", "py") :> <<"l">>)
    @@ (Path(0, <<>>, "d", "js") :> <<"g">>)
    @@ (Path(0, <<>>, "e", "ts") :> <<"l">>)
    @@ (Path(0, <<>>, "f", "md") :> <<"g">>)

\* a directory of the project with the name of a Python file
ValidateDir == Path(0, <<>>, "h", "py")

\* the paths the validators are called with, one of them of no file
ValidatePaths == DOMAIN ValidateTexts \cup {ValidateDir, Path(0, <<>>, "z", "py")}

\* what the subprocess that executes a file does
Processes ==
    [seconds : {1, DefaultTimeout - 1, DefaultTimeout + 1}, returncode : {0, 2},
     stderr : {"", "Traceback"}, stdout : {""}, answer : {"success"}]

\* what the subprocess that runs a wrapper script does
WrapperProcesses ==
    [seconds : {1, DefaultTimeout + 1, DefaultTimeout * 2 + 1}, returncode : {0},
     stderr : {""}, stdout : {""}, answer : {"success", "failure", "unparsable"}]

\* a project that holds the files, under any installation
InitValidate ==
    /\ env \in Environments
    /\ files = [f \in {Join(env, p) : p \in DOMAIN ValidateTexts} |->
                  ValidateTexts[CHOOSE p \in DOMAIN ValidateTexts : Join(env, p) = f]]
    /\ dirs = {ProjectDir, FeedbackDir, AsDir(Join(env, ValidateDir))}
    /\ context = DefaultContext
    /\ context_doc = [present |-> FALSE, data |-> DefaultContext]
    /\ feedback_entries = <<>>
    /\ feedback_doc = [present |-> FALSE, data |-> <<>>]
    /\ error_instances = <<>>
    /\ log = <<>>
    /\ pc = "idle"
    /\ flow = NoFlow
    /\ ret = NoReturn
    /\ calls = 0
    /\ other = NoOther
    /\ error_collector = NewErrorCollector
    /\ error_data = NoErrorData
    /\ subprocess = NoSubprocess

\* the call left the world w and handed back value
ValidateCall(op, w, value, args) ==
    /\ calls < MaxValidateCalls
    /\ Becomes(w)
    /\ ret' = [op |-> op, raised |-> FALSE, value |-> value, args |-> args]
    /\ calls' = calls + 1
    /\ UNCHANGED <<pc, flow, env, other, error_collector, error_data, subprocess>>

\* CodeValidator.validate_file, called directly
ValidateFileCall ==
    \E path \in ValidatePaths :
        LET r == ValidateFile(env, World, path)
        IN ValidateCall("validate_file", r.w, r.result, [path |-> path])

\* RuntimeValidator.validate_python_file, called directly; process is what
\* the interpreter does with the file
ValidatePythonFileCall ==
    \E path \in ValidatePaths, run \in Processes :
        ValidateCall("validate_python_file", World,
                     ValidatePythonFile(env, World, path, run),
                     [path |-> path,
                      process |-> IF CanRead(World, Join(env, path))
                                  THEN Interpreted(files[Join(env, path)], run)
                                  ELSE run])

\* RuntimeValidator.validate_javascript_file, called directly
ValidateJavascriptFileCall ==
    \E path \in ValidatePaths, run \in Processes :
        ValidateCall("validate_javascript_file", World,
                     ValidateJavascriptFile(env, World, path, run),
                     [path |-> path, process |-> run])

\* RuntimeValidator.validate_python_function, called directly
ValidatePythonFunctionCall ==
    \E path \in ValidatePaths, run \in WrapperProcesses :
        ValidateCall("validate_python_function", World,
                     ValidatePythonFunction(env, World, path, run),
                     [path |-> path, process |-> run])

\* RuntimeValidator.validate_api_endpoint, called directly
ValidateApiEndpointCall ==
    \E path \in ValidatePaths, run \in WrapperProcesses :
        ValidateCall("validate_api_endpoint", World,
                     ValidateApiEndpoint(env, World, path, run),
                     [path |-> path, process |-> run])

\* ProjectGenie.validate_component_runtime, called directly
ValidateComponentRuntimeCall ==
    \E path \in ValidatePaths, run \in Processes :
        LET r == ValidateComponentRuntime(env, World, path, run)
        IN ValidateCall("validate_component_runtime", r.w, r.result,
                        [path |-> path, process |-> run])

NextValidate ==
    \/ ValidateFileCall
    \/ ValidatePythonFileCall
    \/ ValidateJavascriptFileCall
    \/ ValidatePythonFunctionCall
    \/ ValidateApiEndpointCall
    \/ ValidateComponentRuntimeCall

SpecValidate == InitValidate /\ [][NextValidate]_vars

\* C27: no result a validator hands back reports success together with
\* errors.
NoSuccessWithErrors ==
    ret.op # "none" => (ret.value.success => ret.value.errors = <<>>)

\* a Python file the linter finds errors in was validated with the linter
\* installed, and the result reports success
LintErrorsPassed ==
    /\ ret.op = "validate_file"
    /\ ret.args.path = Path(0, <<>>, "c", "py")
    /\ env.pylint
    /\ PylintErrors(files[Join(env, ret.args.path)]) # <<>>
    /\ ret.value.success

\* the text of the file at the path, when it is one that can be read
TextAt(path) == files[Join(env, path)]

\* the line of the first character of the text that does not compile
LineOfError(text) ==
    CHOOSE line \in 1..(Len(text) + 1) :
        \E k \in 1..Len(text) :
            /\ text[k] \in {"x", BT}
            /\ \A j \in 1..(k - 1) : text[j] \notin {"x", BT}
            /\ line = 1 + Cardinality({j \in 1..(k - 1) : text[j] = NL})

\* C28: validate_file of a Python file that does not compile reports
\* failure with one error, the one that names the line of the syntax error
\* and the parser's message, and does not run the linter on the file.
SyntaxErrorFailsAtOnce ==
    [][(/\ Called("validate_file")
        /\ ret'.args.path.ext = "py"
        /\ CanRead(World, Join(env, ret'.args.path))
        /\ CompileFails(TextAt(ret'.args.path))) =>
          /\ ~ret'.value.success
          /\ ret'.value.errors =
                <<"Syntax error at line "
                    \o ToString(LineOfError(TextAt(ret'.args.path)))
                    \o ": invalid syntax">>
          /\ \A n \in 1..Len(log') : log'[n].ev = "validate" => ~log'[n].linted]_vars

\* a Python file with a syntax error on its second line was validated with
\* the linter installed
SyntaxErrorReported ==
    /\ ret.op = "validate_file"
    /\ ret.args.path = Path(0, <<>>, "b", "py")
    /\ env.pylint
    /\ ret.value.errors = <<"Syntax error at line 2: invalid syntax">>

\* C29: validate_file of a file that can be validated, without the linter
\* of its family installed, reports success with a warning.
LinterAbsentWarns ==
    [][(/\ Called("validate_file")
        /\ CanRead(World, Join(env, ret'.args.path))
        /\ \/ /\ ret'.args.path.ext = "py"
              /\ ~env.pylint
              /\ ~CompileFails(TextAt(ret'.args.path))
           \/ /\ ret'.args.path.ext \in {"js", "jsx", "ts", "tsx"}
              /\ ~env.eslint) =>
          /\ ret'.value.success
          /\ ret'.value.warnings # <<>>]_vars

\* C30: validate_python_file of a file it can execute reports, when the
\* process ran past the timeout, failure with the timeout error and the
\* timeout as execution time; when it exited non-zero, failure with the
\* return code and stderr as the errors; when it exited zero, success with no
\* errors and stderr, if there is any, as the one warning.
ExecutionsClassified ==
    [][(/\ Called("validate_python_file")
        /\ CanRead(World, Join(env, ret'.args.path))) =>
          LET process == ret'.args.process
              result == ret'.value
          IN IF process.seconds > env.timeout
             THEN /\ ~result.success
                  /\ result.errors = <<"Execution timed out after "
                                         \o ToString(env.timeout) \o " seconds">>
                  /\ result.execution_time = env.timeout
             ELSE IF process.returncode # 0
             THEN /\ ~result.success
                  /\ result.errors = <<"Execution failed with return code "
                                         \o ToString(process.returncode),
                                       process.stderr>>
             ELSE /\ result.success
                  /\ result.errors = <<>>
                  /\ result.warnings = IF process.stderr = "" THEN <<>>
                                       ELSE <<process.stderr>>]_vars

\* a Python file was executed and ran past a timeout shorter than the
\* time it needed before it was stopped
TimedOutExecution ==
    /\ ret.op = "validate_python_file"
    /\ CanRead(World, Join(env, ret.args.path))
    /\ env.timeout < ret.args.process.seconds
    /\ ret.args.process.seconds < DefaultTimeout
    /\ ~ret.value.success
    /\ ret.value.execution_time = env.timeout

-----------------------------------------------------------------------------
(* Calls of the validators, followed while they wait for their subprocess  *)
(* subprocess.run blocks the caller until the process it spawned has ended *)
(* or, where a timeout is passed, until the timeout has expired. The       *)
(* probes that come before it (pylint --version, eslint --version,         *)
(* node --version, pip install) are taken to end.                          *)

MaxWaitCalls == 2

\* the seconds a wait is followed for: past every timeout a call can give
Horizon == DefaultTimeout * 2 + 1

\* what the spawned process does: it ends within a second, it ends when the
\* horizon is reached, or it never ends
SpawnedProcesses ==
    {[OkRun EXCEPT !.seconds = 1] @@ [ends |-> TRUE],
     [OkRun EXCEPT !.seconds = Horizon] @@ [ends |-> TRUE],
     [OkRun EXCEPT !.seconds = Horizon] @@ [ends |-> FALSE]}

WaitOps ==
    {"validate_file", "validate_python_file", "validate_python_function",
     "validate_javascript_file", "validate_api_endpoint"}

\* a Python file, one that does not compile, a JavaScript file, no file
WaitPaths ==
    {Path(0, <<>>, "a", "py"), Path(0, <<>>, "b", "py"), Path(0, <<>>, "d", "js"),
     Path(0, <<>>, "z", "py")}

\* a variant in which the linters run under the validator's timeout
TimeoutGivenToAll(e, op) ==
    IF op = "validate_api_endpoint" THEN Some(e.timeout * 2) ELSE Some(e.timeout)

\* the timeout the operation passes to the subprocess.run of the process it
\* spawns: _run_pylint and _run_eslint pass none
TimeoutGiven(e, op) ==
    IF op = "validate_file" THEN None
    ELSE IF op = "validate_api_endpoint" THEN Some(e.timeout * 2)
    ELSE Some(e.timeout)

\* the operation gets as far as spawning the process
Spawns(e, w, op, path) ==
    LET full == Join(e, path) IN
    IF op = "validate_file" THEN Linted(e, w, path)
    ELSE /\ Exists(w, full)
         /\ CanRead(w, full)
         /\ op = "validate_javascript_file" => e.node

\* what the operation hands back, given what the process did
ResultOf(e, w, op, path, run) ==
    IF op = "validate_file" THEN ValidateFile(e, w, path)
    ELSE [w |-> w,
          result |->
              IF op = "validate_python_file" THEN ValidatePythonFile(e, w, path, run)
              ELSE IF op = "validate_python_function"
                   THEN ValidatePythonFunction(e, w, path, run)
              ELSE IF op = "validate_javascript_file"
                   THEN ValidateJavascriptFile(e, w, path, run)
                   ELSE ValidateApiEndpoint(e, w, path, run)]

\* a project that holds the files; the linters and node may be missing
InitWait ==
    /\ InitValidate
    /\ env.relative_root = FALSE

\* the operation returns to its caller
WaitReturn(op, path, run) ==
    LET r == ResultOf(env, World, op, path, run) IN
    /\ Becomes(r.w)
    /\ ret' = [op |-> op, raised |-> FALSE, value |-> r.result,
               args |-> [path |-> path, process |-> run]]
    /\ calls' = calls + 1
    /\ pc' = "idle"
    /\ subprocess' = NoSubprocess
    /\ UNCHANGED <<flow, env, other, error_collector, error_data>>

\* a call that spawns nothing returns at once
CallReturnsAtOnce ==
    /\ pc = "idle"
    /\ calls < MaxWaitCalls
    /\ \E op \in WaitOps, path \in WaitPaths :
          /\ ~Spawns(env, World, op, path)
          /\ WaitReturn(op, path, OkRun)

\* subprocess.run spawns the process and starts to wait
CallSpawns ==
    /\ pc = "idle"
    /\ calls < MaxWaitCalls
    /\ \E op \in WaitOps, path \in WaitPaths, process \in SpawnedProcesses :
          /\ Spawns(env, World, op, path)
          /\ subprocess' = [op |-> op, path |-> path, process |-> process,
                            timeout |-> TimeoutGiven(env, op), elapsed |-> 0]
    /\ pc' = "waiting"
    /\ UNCHANGED <<calls, files, dirs, context, context_doc, feedback_entries,
                   feedback_doc, error_instances, log, flow, ret, env, other,
                   error_collector, error_data>>

\* the process has ended
Ended(s) == s.process.ends /\ s.elapsed >= s.process.seconds

\* the timeout passed to subprocess.run has expired
Expired(s) == s.timeout # None /\ s.elapsed >= s.timeout[1]

\* a second passes while subprocess.run waits; past the horizon the seconds
\* are no longer counted, the caller is blocked in subprocess.run all the same
SecondPasses ==
    /\ pc = "waiting"
    /\ ~Ended(subprocess)
    /\ ~Expired(subprocess)
    /\ subprocess.elapsed < Horizon
    /\ subprocess' = [subprocess EXCEPT !.elapsed = @ + 1]
    /\ UNCHANGED <<calls, files, dirs, context, context_doc, feedback_entries,
                   feedback_doc, error_instances, log, pc, flow, ret, env, other,
                   error_collector, error_data>>

\* the process ends and subprocess.run returns what it did
ProcessEnds ==
    /\ pc = "waiting"
    /\ Ended(subprocess)
    /\ WaitReturn(subprocess.op, subprocess.path,
                  [f \in DOMAIN OkRun |-> subprocess.process[f]])

\* subprocess.run kills the process and raises TimeoutExpired, which the
\* operation turns into its timeout result
TimeoutExpires ==
    /\ pc = "waiting"
    /\ ~Ended(subprocess)
    /\ Expired(subprocess)
    /\ WaitReturn(subprocess.op, subprocess.path,
                  [f \in DOMAIN OkRun |-> subprocess.process[f]])

NextWait ==
    \/ CallReturnsAtOnce
    \/ CallSpawns
    \/ SecondPasses
    \/ ProcessEnds
    \/ TimeoutExpires

\* time passes, and subprocess.run returns once the process has ended or
\* the timeout has expired
SpecWait ==
    /\ InitWait
    /\ [][NextWait]_vars
    /\ WF_vars(SecondPasses)
    /\ WF_vars(ProcessEnds)
    /\ WF_vars(TimeoutExpires)

\* C31: every call of validate_file, validate_python_file,
\* validate_python_function, validate_javascript_file and
\* validate_api_endpoint that waits for a spawned process returns in the
\* end, whether or not the process ever ends.
EveryCallReturns == (pc = "waiting") ~> (pc = "idle")

\* the calls that pass a timeout return in the end, and in time: with a
\* timeout result when the process has not ended by then
TimedCallsReturn ==
    [][(pc = "waiting" /\ Expired(subprocess) /\ ~Ended(subprocess))
        => (pc' = "idle" /\ ~ret'.value.success)]_vars

-----------------------------------------------------------------------------
(* The text-generation clients                                             *)
(* A value of Python that came out of response.json(): its kind, the       *)
(* characters of a string, the items of a list or of a dict.               *)

JsonString(text) == [json |-> "string", text |-> text, items |-> <<>>]
JsonNull == [json |-> "null", text |-> <<>>, items |-> <<>>]
JsonNumber == [json |-> "number", text |-> <<>>, items |-> <<>>]
JsonArray(items) == [json |-> "array", text |-> <<>>, items |-> items]
JsonObject(items) == [json |-> "object", text |-> <<>>, items |-> items]

\* {key: value}
Single(key, value) == JsonObject(<<[key |-> key, value |-> value]>>)

\* the empty string
EmptyString == JsonString(<<>>)

\* an expression that raised, and one that gave a value
Raised == [raised |-> TRUE, value |-> JsonNull]
Gave(value) == [raised |-> FALSE, value |-> value]

\* r[name] for a string name: KeyError of a dict without it, TypeError of
\* anything that is not a dict
Item(r, name) ==
    IF r.raised THEN r
    ELSE IF r.value.json = "object" /\ Has(r.value.items, name)
         THEN Gave(Get(r.value.items, name))
         ELSE Raised

\* r[0]: the first item of a list, the first character of a string,
\* IndexError of an empty one, KeyError or TypeError of anything else
First(r) ==
    IF r.raised THEN r
    ELSE IF r.value.json = "array" /\ Len(r.value.items) > 0
         THEN Gave(r.value.items[1])
    ELSE IF r.value.json = "string" /\ Len(r.value.text) > 0
         THEN Gave(JsonString(<<r.value.text[1]>>))
         ELSE Raised

\* api_key or os.environ.get(NAME): the first of the two that is neither
\* None nor empty, else the second
ApiKey(api_key, environment) ==
    IF api_key # None /\ api_key # Some("") THEN api_key ELSE environment

\* get_llm_client: an unknown provider gives the OpenAI client
GetLlmClient(provider, api_key, environment) ==
    [provider |-> IF provider \in {"openai", "anthropic"} THEN provider ELSE "openai",
     api_key |-> ApiKey(api_key, environment[IF provider = "anthropic"
                                             THEN "anthropic" ELSE "openai"])]

\* OpenAIClient.is_available, AnthropicClient.is_available
IsAvailable(client) == client.api_key # None

\* result["choices"][0]["message"]["content"], result["content"][0]["text"]
Content(client, result) ==
    IF client.provider = "openai"
    THEN Item(Item(First(Item(result, "choices")), "message"), "content")
    ELSE Item(First(Item(result, "content")), "text")

\* what the try block hands back or raises: requests.post raises on a
\* network failure, raise_for_status on a status that is not 2xx,
\* response.json() on a body that is not JSON
Tried(client, exchange) ==
    IF ~exchange.reached THEN Raised
    ELSE IF exchange.status \notin 200..299 THEN Raised
    ELSE IF ~exchange.body.is_json THEN Raised
    ELSE Content(client, Gave(exchange.body.value))

\* OpenAIClient.generate, AnthropicClient.generate: what is returned, and
\* the requests that were posted
Generate(client, exchange) ==
    IF ~IsAvailable(client)
    THEN [raised |-> FALSE, value |-> EmptyString, posted |-> <<>>]
    ELSE LET r == Tried(client, exchange) IN
         [raised |-> FALSE,
          value |-> IF r.raised THEN EmptyString ELSE r.value,
          posted |-> <<[provider |-> client.provider, api_key |-> client.api_key]>>]

(* Direct calls of a client                                                *)

MaxClientCalls == 2

Providers == {"openai", "anthropic", "other"}

\* the api_key argument: not given, empty, a key
ApiKeys == {None, Some(""), Some("k")}

\* the two environment variables: not set, set to nothing, set to a key
ClientEnvironments == [{"openai", "anthropic"} -> {None, Some(""), Some("e")}]

\* the bodies a provider answers with
Bodies ==
    {[is_json |-> FALSE, value |-> JsonNull]}
    \cup {[is_json |-> TRUE, value |-> v] : v \in
            {JsonObject(<<>>),
             JsonNull,
             Single("choices", JsonArray(<<>>)),
             Single("choices", JsonString(<<"g">>)),
             Single("choices", JsonArray(<<Single("message", Single("content", JsonString(<<"g">>)))>>)),
             Single("choices", JsonArray(<<Single("message", Single("content", EmptyString))>>)),
             Single("choices", JsonArray(<<Single("message", Single("content", JsonNull))>>)),
             Single("content", JsonArray(<<Single("text", JsonString(<<"g">>))>>)),
             Single("content", JsonArray(<<Single("text", JsonNumber)>>))}}

\* what becomes of the request: the network fails, or an answer arrives
Exchanges == [reached : BOOLEAN, status : {200, 500}, body : Bodies]

\* get_llm_client(provider, api_key=api_key).generate(prompt)
GenerateCall ==
    \E provider \in Providers, api_key \in ApiKeys,
       environment \in ClientEnvironments, exchange \in Exchanges :
        LET client == GetLlmClient(provider, api_key, environment)
            r == Generate(client, exchange)
        IN /\ calls < MaxClientCalls
           /\ calls' = calls + 1
           /\ ret' = [op |-> "generate", raised |-> r.raised, value |-> r.value,
                      args |-> [client |-> client, exchange |-> exchange]]
           /\ log' = r.posted
           /\ UNCHANGED <<files, dirs, context, context_doc, feedback_entries,
                          feedback_doc, error_instances, pc, flow, env, other,
                          error_collector, error_data, subprocess>>

\* get_llm_client(provider, api_key=api_key).is_available()
IsAvailableCall ==
    \E provider \in Providers, api_key \in ApiKeys, environment \in ClientEnvironments :
        LET client == GetLlmClient(provider, api_key, environment)
        IN /\ calls < MaxClientCalls
           /\ calls' = calls + 1
           /\ ret' = [op |-> "is_available", raised |-> FALSE,
                      value |-> IsAvailable(client),
                      args |-> [client |-> client]]
           /\ log' = <<>>
           /\ UNCHANGED <<files, dirs, context, context_doc, feedback_entries,
                          feedback_doc, error_instances, pc, flow, env, other,
                          error_collector, error_data, subprocess>>

InitClient == Init /\ env.relative_root = FALSE

NextClient == GenerateCall \/ IsAvailableCall

SpecClient == InitClient /\ [][NextClient]_vars

\* the body holds a string where the client looks for the text
WellFormed(client, body) ==
    /\ body.is_json
    /\ LET r == Content(client, Gave(body.value))
       IN ~r.raised /\ r.value.json = "string"

\* the call should give no output
NoOutputDue(client, exchange) ==
    \/ ~IsAvailable(client)
    \/ ~exchange.reached
    \/ exchange.status \notin 200..299
    \/ ~WellFormed(client, exchange.body)

\* C32: generate never raises; with missing credentials, a network
\* failure, a status that is not 2xx or a malformed body it returns the
\* empty string, and with missing credentials it posts no request.
GenerateDegradesToEmpty ==
    [][Called("generate") =>
        /\ ~ret'.raised
        /\ NoOutputDue(ret'.args.client, ret'.args.exchange) => ret'.value = EmptyString
        /\ ~IsAvailable(ret'.args.client) => log' = <<>>]_vars

\* what holds of the code: the same, for the bodies that are not JSON or
\* lack the path to the text
GenerateDegradesOnMissingPath ==
    [][Called("generate") =>
        /\ ~ret'.raised
        /\ ret'.value.json # "string" =>
              /\ ret'.args.exchange.body.is_json
              /\ ~Content(ret'.args.client, Gave(ret'.args.exchange.body.value)).raised
        /\ (\/ ~IsAvailable(ret'.args.client)
            \/ ~ret'.args.exchange.reached
            \/ ret'.args.exchange.status \notin 200..299
            \/ ~ret'.args.exchange.body.is_json
            \/ Content(ret'.args.client, Gave(ret'.args.exchange.body.value)).raised)
           => ret'.value = EmptyString
        /\ ~IsAvailable(ret'.args.client) => log' = <<>>]_vars

-----------------------------------------------------------------------------
(* The audit trail of the orchestrator flows                               *)

\* the records kept for audit: the components and the history of the
\* project context and the entries of the feedback store
AuditRecords(c, entries) == Len(c.components) + Len(c.history) + Len(entries)

\* the step validated a component, statically or at run time, or attempted
\* a refinement
AuditedKinds == {"validate", "runtime", "refine"}

\* C33: every step of an orchestrator flow that validates a component,
\* statically or at run time, or attempts a refinement appends a record to
\* the project context or an entry to the feedback store.
EveryOutcomeRecorded ==
    [][(\E n \in 1..Len(log') : log'[n].ev \in AuditedKinds)
        => AuditRecords(context', feedback_entries')
             > AuditRecords(context, feedback_entries)]_vars

-----------------------------------------------------------------------------
(* What a registration leaves alone                                        *)

\* the matched patterns stored under the error id, None when the collector
\* holds no such instance
StoredMatches(c, error_id) ==
    IF Has(c.error_instances, error_id)
    THEN Some(Get(c.error_instances, error_id).matched_patterns)
    ELSE None

\* C34: the matched patterns of a stored instance are those of its last
\* recording: add_error_pattern changes no stored instance, only add_error
\* of the same error or load_from_file changes what an error id stands for,
\* and get_errors_by_pattern and get_most_common_patterns change nothing
\* and count an instance for a pattern only when its stored matched
\* patterns name it, so never for a pattern registered after it.
MatchedPatternsFixed ==
    [][/\ Called("add_error_pattern") =>
             error_collector'.error_instances = error_collector.error_instances
       /\ \A n \in 1..Len(error_collector.error_instances) :
             LET error_id == error_collector.error_instances[n].key
             IN StoredMatches(error_collector', error_id)
                    # StoredMatches(error_collector, error_id)
                => \/ ret'.op = "add_error" /\ ret'.value = error_id
                   \/ ret'.op = "load_from_file"
       /\ Called("get_errors_by_pattern") =>
             /\ error_collector' = error_collector
             /\ Len(ret'.value) = InstanceCount(error_collector, ret'.args.pattern_id)
             /\ \A k \in 1..Len(ret'.value) :
                   /\ Has(error_collector.error_instances, ret'.value[k].error_id)
                   /\ Get(error_collector.error_instances, ret'.value[k].error_id)
                         = ret'.value[k]
                   /\ ret'.args.pattern_id \in Ids(ret'.value[k].matched_patterns)
                   /\ \A j \in 1..(k - 1) : ret'.value[j] # ret'.value[k]
       /\ Called("get_most_common_patterns") =>
             /\ error_collector' = error_collector
             /\ \A k \in 1..Len(ret'.value) :
                   ret'.value[k].value
                       = InstanceCount(error_collector, ret'.value[k].key)]_vars

\* the errors of a pattern were asked for that was registered after an
\* error it searches was recorded, and the error was not among them
LatePatternCountsNothing ==
    /\ ret.op = "get_errors_by_pattern"
    /\ Has(error_collector.error_patterns, ret.args.pattern_id)
    /\ Md5(<<".">>) = ret.args.pattern_id
    /\ MatchingErrors(error_collector, ret.args.pattern_id) > 0
    /\ ret.value = <<>>

-----------------------------------------------------------------------------
(* improve_component when the client has nothing to say                    *)

\* C35: when the client answers improve_component's request with the empty
\* string, the component file holds after the call what it held before and
\* every feedback entry is as resolved as it was; the file is never
\* overwritten with nothing.
EmptyAnswerImprovesNothing ==
    [][(Called("improve_component") /\ ret'.args.response = <<>>) =>
          LET full_path == Join(env, ret'.args.component_path)
          IN /\ full_path \in DOMAIN files =>
                   /\ full_path \in DOMAIN files'
                   /\ files'[full_path] = files[full_path]
             /\ DOMAIN feedback_entries' = DOMAIN feedback_entries
             /\ \A id \in DOMAIN feedback_entries :
                   feedback_entries'[id].resolved = feedback_entries[id].resolved]_vars

-----------------------------------------------------------------------------
(* Direct calls of refine_component and debug_component                    *)

MaxRefineCalls == 2

\* the errors a refinement is asked to fix
ErrorLists == {<<>>, <<"E1">>, <<"E1", "E2">>}

\* what the client answers: nothing, blanks, code, code that does not
\* compile, code in a fence
RefineAnswers ==
    {<<>>, <<SP>>, <<"g">>, <<"x">>, <<BT, BT, BT, NL, "g", NL, BT, BT, BT>>}

\* a Python file, one that does not compile, one the linter objects to, and
\* no file
RefinePaths ==
    {Path(0, <<>>, "a", "py"), Path(0, <<>>, "b", "py"), Path(0, <<>>, "c", "py"),
     Path(0, <<>>, "z", "py")}

\* a ProjectGenie on a project that holds the files
InitRefine ==
    /\ InitValidate
    /\ env.eslint
    /\ env.node
    /\ env.timeout = DefaultTimeout

\* ProjectGenie.refine_component, called directly
RefineComponentCall ==
    /\ calls < MaxRefineCalls
    /\ \E path \in RefinePaths, errors \in ErrorLists, response \in RefineAnswers :
          LET refined == RefineComponent(env, World, path, errors, response)
          IN /\ Becomes(refined.w)
             /\ ret' = [op |-> "refine_component", raised |-> FALSE,
                        value |-> refined.value,
                        args |-> [path |-> path, response |-> response]]
    /\ calls' = calls + 1
    /\ UNCHANGED <<pc, flow, env, other, error_collector, error_data, subprocess>>

\* ProjectGenie.debug_component, called directly
DebugComponentCall ==
    /\ calls < MaxRefineCalls
    /\ \E path \in RefinePaths, response \in RefineAnswers :
          LET debugged == DebugComponent(env, World, path, "boom", response)
          IN /\ Becomes(debugged.w)
             /\ ret' = [op |-> "debug_component", raised |-> FALSE,
                        value |-> debugged.value,
                        args |-> [path |-> path, response |-> response]]
    /\ calls' = calls + 1
    /\ UNCHANGED <<pc, flow, env, other, error_collector, error_data, subprocess>>

NextRefine == RefineComponentCall \/ DebugComponentCall

SpecRefine == InitRefine /\ [][NextRefine]_vars

\* C36: when the client answers with the empty string, refine_component
\* and debug_component return False, the files, the project context and
\* the feedback store, in memory and saved, are what they were, and the
\* call validates nothing.
EmptyAnswerLeavesAll ==
    [][((Called("refine_component") \/ Called("debug_component"))
        /\ ret'.args.response = <<>>) =>
          /\ ret'.value = FALSE
          /\ files' = files
          /\ dirs' = dirs
          /\ context' = context
          /\ context_doc' = context_doc
          /\ feedback_entries' = feedback_entries
          /\ feedback_doc' = feedback_doc
          /\ error_instances' = error_instances
          /\ \A n \in 1..Len(log') : log'[n].ev \notin {"validate", "write"}]_vars

\* after a call that changed the component and left its records, the client
\* answered a refinement or a debugging of a file it could read with nothing
EmptyAnswerAfterChange ==
    /\ calls = 2
    /\ ret.op \in {"refine_component", "debug_component"}
    /\ ret.args.response = <<>>
    /\ ret.value = FALSE
    /\ Join(env, ret.args.path) \in DOMAIN files
    /\ Len(context.history) > 0
    /\ \E n \in 1..Len(log) : log[n].ev = "llm"

-----------------------------------------------------------------------------
(* What generate_from_description hands back                               *)

\* the components the step recorded in the project context
RecordedBy(before, after) ==
    {after.components[n] : n \in (Len(before.components) + 1)..Len(after.components)}

\* C37: every component a call of generate_from_description recorded in
\* the project context, its file written, is in the list the call returns;
\* a call that returns the empty list recorded none.
ReturnedHoldsRecorded ==
    [][Called("generate_from_description") =>
          /\ Len(context'.components) >= Len(context.components)
          /\ \A component \in RecordedBy(context, context') :
                \E k \in 1..Len(ret'.value) :
                   /\ ret'.value[k].path = component.path
                   /\ ret'.value[k].name = component.name
                   /\ ret'.value[k].type = component.type]_vars

-----------------------------------------------------------------------------
(* The unit-test stage walks a list it appends to                          *)

\* what is left of the walk: the components from the i-th on, those of them
\* of a tested type counted twice
LeftToWalk(f) ==
    (Len(f.components) + 1 - f.i)
    + Cardinality({n \in f.i..Len(f.components) :
                      f.components[n].type \in {"frontend", "backend", "database_models"}})

\* the requests for unit tests the step just taken made
UnitTestRequests(l) == {n \in 1..Len(l) : l[n].ev = "llm" /\ l[n].kind = "unit_test"}

\* C38: every turn of the unit-test stage of generate_multi_component_project
\* leaves less to walk, although it may append to the list it walks: it
\* asks for at most one unit test, for none when the component is not a
\* frontend, backend or database_models component, and a unit_test entry it
\* comes to is passed over with the list unchanged.
UnitTestStageTerminates ==
    [][(pc = "unit" /\ flow.i <= Len(flow.components) /\ flow' # flow) =>
          LET component == flow.components[flow.i]
          IN /\ flow'.i = flow.i + 1
             /\ LeftToWalk(flow') < LeftToWalk(flow)
             /\ LeftToWalk(flow') >= 0
             /\ Cardinality(UnitTestRequests(log')) <= 1
             /\ component.type \notin {"frontend", "backend", "database_models"} =>
                   /\ UnitTestRequests(log') = {}
                   /\ flow'.components = flow.components
             /\ Len(flow'.components) > Len(flow.components) =>
                   /\ Len(flow'.components) = Len(flow.components) + 1
                   /\ flow'.components[Len(flow'.components)].type = "unit_test"]_vars

\* the walk has passed a unit_test entry that it appended itself
WalkedOverOwnTest ==
    /\ pc = "unit"
    /\ \E n \in 1..(flow.i - 1) :
          /\ flow.components[n].type = "unit_test"
          /\ \E m \in 1..(n - 1) : flow.components[m].type = "backend"

-----------------------------------------------------------------------------
(* The backup of successive improvements                                   *)

\* C39: after apply_improvement(path, code) has returned True the file at
\* path holds code and path.bak holds what path held just before the call;
\* when the call before it was a successful apply_improvement of the same
\* path, that is the code of that earlier improvement.
BackupHoldsPrevious ==
    [][(Called("apply_improvement") /\ ret'.value = TRUE) =>
          LET full_path == Join(env, ret'.args.component_path)
              backup_path == BackupOf(full_path)
          IN /\ full_path \in DOMAIN files
             /\ full_path \in DOMAIN files'
             /\ backup_path \in DOMAIN files'
             /\ files'[full_path] = ret'.args.improved_code
             /\ files'[backup_path] = files[full_path]
             /\ (/\ ret.op = "apply_improvement"
                 /\ ret.value = TRUE
                 /\ ret.args.component_path = ret'.args.component_path)
                => files'[backup_path] = ret.args.improved_code]_vars

\* two improvements were applied one after the other: the backup holds the
\* code of the first, which is neither the code the file had at the start
\* nor the code it has now
SecondBackupHoldsFirst ==
    /\ calls = 2
    /\ ret.op = "apply_improvement"
    /\ ret.value = TRUE
    /\ LET full_path == Join(env, ret.args.component_path)
       IN /\ BackupOf(full_path) \in DOMAIN files
          /\ files[BackupOf(full_path)] = <<"g">>
          /\ files[full_path] = <<>>
          /\ \A n \in 1..Len(log) :
                (log[n].ev = "write" /\ log[n].file = BackupOf(full_path))
                   => log[n].text # <<"l">>

=============================================================================
